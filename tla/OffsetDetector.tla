----------------------------- MODULE OffsetDetector -----------------------------
(***************************************************************************)
(* Detection of kernel structure offsets (pkg/offset/detector.go): BTF,    *)
(* the tables embedded in the binary, and a file, tried one after the      *)
(* other.  A version is the sequence of its characters, because tables are *)
(* chosen by substring; an offset table is named by where it comes from.   *)
(***************************************************************************)
EXTENDS Naturals, Sequences

CONSTANT Tables  \* the embedded tables in directory order, as [name, series]

ASSUME OffsetAssumption == \A i \in DOMAIN Tables : Len(Tables[i].name) > 0

Nothing == [source |-> "none", table |-> 0]

Default(h) == IF h.amd64 THEN [source |-> "default", table |-> 0] ELSE Nothing

\* What bpftool prints is not used.
FromBTF(h) == IF h.bpftool THEN Default(h) ELSE Nothing

\* strings.Contains
Contains(s, t) == \E i \in 0 .. Len(s) - Len(t) : SubSeq(s, i + 1, i + Len(t)) = t

Matches(version, name) == Contains(version, name) \/ Contains(name, version)

\* The first table whose name contains the version or is contained in it, or 0.  The
\* tables are compiled in and parse, so the code's way past a table that does not
\* is never taken.
loadEmbeddedOffsets(version) ==
  LET hits == {i \in DOMAIN Tables : Matches(version, Tables[i].name)}
  IN  IF hits = {} THEN 0 ELSE CHOOSE i \in hits : \A j \in hits : i <= j

tableOf(k) ==
  LET exact == loadEmbeddedOffsets(k.name)
      series == loadEmbeddedOffsets(k.series)
  IN  IF exact # 0 THEN exact ELSE series

detectEmbedded(h) ==
  LET i == tableOf(h.kernel)
  IN  IF ~h.uname THEN Nothing
      ELSE IF i # 0 THEN [source |-> "embedded", table |-> i] ELSE Default(h)

detectManual(h) == IF h.manual = "good" THEN [source |-> "manual", table |-> 0] ELSE Nothing

OrElse(a, b) == IF a # Nothing THEN a ELSE b

manualBeforeTables(h) == OrElse(IF h.btf THEN FromBTF(h) ELSE Nothing, OrElse(detectManual(h), detectEmbedded(h)))  \* mutant

detectAuto(h) == OrElse(IF h.btf THEN FromBTF(h) ELSE Nothing, OrElse(detectEmbedded(h), detectManual(h)))

\* d.kernelVer is assigned: detectEmbedded was reached, and uname worked.
versionRead(h, mode) ==
  /\ h.uname
  /\ mode = "embedded" \/ (mode = "auto" /\ (IF h.btf THEN FromBTF(h) ELSE Nothing) = Nothing)

\* The result of Detect and the version it leaves in d.kernelVer.
Detect(h, mode) ==
  [offsets |-> CASE mode = "auto" -> detectAuto(h) [] mode = "embedded" -> detectEmbedded(h)
                 [] mode = "manual" -> detectManual(h) [] OTHER -> Nothing,
   kernelVer |-> versionRead(h, mode)]
===============================================================================
