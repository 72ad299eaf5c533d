------------------------------- MODULE SemVer -------------------------------
(***************************************************************************)
(* Version precedence of the rollback guard: the comparison of the Go core *)
(* (internal/pack/semver.go), the one of the Python reference runtime      *)
(* (tools/pack/versioning.py), the definition of SemVer 2.0.0 that both    *)
(* stand for, and the highest-seen version that ObservePack keeps with     *)
(* the Go comparison.                                                      *)
(*                                                                         *)
(* A version is its three numbers and its pre-release identifiers; an      *)
(* identifier is a sequence of character codes.                            *)
(***************************************************************************)
EXTENDS Integers, Sequences, SequencesExt

CONSTANTS
  Char,      \* codes of the characters identifiers are made of
  MaxChars,  \* bound on the length of an identifier
  MaxTokens, \* bound on the number of identifiers
  Cores,     \* major, minor, patch
  MaxInt     \* largest number strconv.Atoi returns without an error

Hyphen == 45
Zero   == 48
Digit  == 48..57

\* strictSemverRE admits hyphens, digits and letters.
ASSUME CharAssumption ==
  Char \subseteq {Hyphen} \union Digit \union 65..90 \union 97..122

ASSUME CoreAssumption == MaxInt \in Nat /\ Cores \subseteq [1..3 -> 0..MaxInt]

Identifier == SeqOf(Char, MaxChars) \ {<<>>}

Digits(t) == t # <<>> /\ \A i \in DOMAIN t : t[i] \in Digit

\* The number that a sequence of digits denotes.
Number(t) ==
  LET value[k \in 0..Len(t)] == IF k = 0 THEN 0 ELSE 10 * value[k-1] + (t[k] - Zero)
  IN value[Len(t)]

\* The order of two different strings.
TextBefore(s, t) ==
  \E i \in 1..Len(t) :
    /\ i <= Len(s) + 1 /\ SubSeq(s, 1, i-1) = SubSeq(t, 1, i-1)
    /\ i <= Len(s) => s[i] < t[i]

Sign(less) == IF less THEN -1 ELSE 1

-----------------------------------------------------------------------------
(* semver.go *)

\* strconv.Atoi reads a sign and fails outside the range of int.
Unsigned(t) == IF Head(t) = Hyphen THEN Tail(t) ELSE t

Atoi(t) ==
  LET n == Number(Unsigned(t))
      v == IF Head(t) = Hyphen THEN -n ELSE n
      ok == Digits(Unsigned(t)) /\ -MaxInt - 1 <= v /\ v <= MaxInt
  IN [ok |-> ok, value |-> IF ok THEN v ELSE 0]

parseSemver(v) ==
  \A i \in DOMAIN v.pre :
    ~(Atoi(v.pre[i]).ok /\ Len(v.pre[i]) > 1 /\ Head(v.pre[i]) = Zero)

Version == {v \in [core : Cores, pre : SeqOf(Identifier, MaxTokens)] : parseSemver(v)}

\* Two identifiers that are not the same text.
compareToken_Text(s, t) == Sign(TextBefore(s, t))
compareToken(s, t) ==
  LET l == Atoi(s)
      r == Atoi(t)
  IN IF l.ok /\ r.ok THEN Sign(l.value < r.value)
     ELSE IF l.ok # r.ok THEN Sign(l.ok)
     ELSE Sign(TextBefore(s, t))

\* The positions at which both lists have an identifier and they differ.
Differences(l, r) == {i \in DOMAIN l \intersect DOMAIN r : l[i] # r[i]}

First(S) == CHOOSE i \in S : \A j \in S : i <= j

\* What both comparisons do with the numbers and with the length of the lists.
Compare(l, r, token(_, _)) ==
  LET core == Differences(l.core, r.core)
      pre  == Differences(l.pre, r.pre)
  IN IF core # {} THEN Sign(l.core[First(core)] < r.core[First(core)])
     ELSE IF l.pre = r.pre THEN 0
     ELSE IF l.pre = <<>> THEN 1
     ELSE IF r.pre = <<>> THEN -1
     ELSE IF pre # {} THEN token(l.pre[First(pre)], r.pre[First(pre)])
     ELSE Sign(Len(l.pre) < Len(r.pre))

compareSemver(l, r) == Compare(l, r, compareToken)

-----------------------------------------------------------------------------
(* versioning.py *)

compare_token(s, t) ==
  IF Digits(s) /\ Digits(t) THEN Sign(Number(s) < Number(t))
  ELSE IF Digits(s) # Digits(t) THEN Sign(Digits(s))
  ELSE Sign(TextBefore(s, t))

compare_versions(l, r) == Compare(l, r, compare_token)

-----------------------------------------------------------------------------
(* SemVer 2.0.0, section 11, as an order: what makes l lower than r. *)

LowerIdentifier(s, t) ==
  \/ Digits(s) /\ Digits(t) /\ Number(s) < Number(t)
  \/ Digits(s) /\ ~Digits(t)
  \/ ~Digits(s) /\ ~Digits(t) /\ s # t /\ TextBefore(s, t)

\* At the first position where x and y differ, x is lower or has ended.
Lower(x, y, less(_, _)) ==
  \E i \in 1..Len(y) :
    /\ i <= Len(x) + 1
    /\ \A j \in 1..(i-1) : x[j] = y[j]
    /\ i <= Len(x) => less(x[i], y[i])

Below(l, r) ==
  \/ Lower(l.core, r.core, <)
  \/ /\ l.core = r.core
     /\ \/ l.pre # <<>> /\ r.pre = <<>>
        \/ l.pre # <<>> /\ Lower(l.pre, r.pre, LowerIdentifier)

Precedence(l, r) == IF Below(l, r) THEN -1 ELSE IF Below(r, l) THEN 1 ELSE 0

-----------------------------------------------------------------------------
(* The highest-seen version of one pack id. *)

VARIABLE seen

VersionInit == seen \in Version

\* ObservePack: a lower version is an error, an equal one changes nothing.
ObservePack(v) ==
  /\ compareSemver(v, seen) >= 0
  /\ seen' = IF compareSemver(v, seen) = 0 THEN seen ELSE v

VersionNext == \E v \in Version : ObservePack(v)

VersionSpec == VersionInit /\ [][VersionNext]_seen

-----------------------------------------------------------------------------
\* An identifier that Atoi takes for a number with a sign.
Signed(t) == Head(t) = Hyphen /\ Digits(Tail(t))

HasSigned(v) == \E i \in DOMAIN v.pre : Signed(v.pre[i])

\* Between versions without identifiers like -1 the Go comparison is SemVer
\* precedence, whichever way round it is asked.
GoIsSemVer ==
  ~HasSigned(seen) =>
    \A v \in Version : HasSigned(v) \/ compareSemver(seen, v) = Precedence(seen, v)

\* The comparison of the Python reference runtime is it between all versions.
PythonIsSemVer ==
  \A v \in Version : compare_versions(seen, v) = Precedence(seen, v)

\* Both runtimes order versions as SemVer 2.0.0 does, but for the identifiers
\* with a sign that Go takes for numbers (compareSemver, compare_versions).
PrecedenceIsSemVer == GoIsSemVer /\ PythonIsSemVer

\* No identifier of digits is a number too large for strconv.Atoi, which would
\* compare it as text.
WithinWidth == \A t \in Identifier : Digits(t) => Number(t) <= MaxInt
=============================================================================
