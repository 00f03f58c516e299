---------------------------- MODULE PartsProofs ----------------------------
(* Proofs about MCParts: the inspection of payloads of any length, over any*)
(* alphabet, with any lengths of sleds, runs and words and for a binary    *)
(* with any sections; and the analysis of a file that others change.       *)
EXTENDS MCParts, FiniteSetTheorems, SequenceTheorems, TLAPS

-----------------------------------------------------------------------------
(* The inductive invariant of scan_payload. *)

ScanType ==
    /\ payload \in Seq(0 .. BYTE - 1)
    /\ got \in Seq([base : Int, size : Int])
    /\ scan \in {"uncalled", "sleds", "runs", "pointers", "done"}
    /\ start \in Nat
    /\ sleds \in Seq(Nat)
    /\ runs \in Seq([offset : Nat, length : Nat])
    /\ pointers \in Seq(Nat)
    /\ scan = "uncalled" => payload = <<>> /\ start = 0

(* The next sled is looked for behind the last one. *)
SledInv ==
    /\ scan = "uncalled" => sleds = <<>>
    /\ scan = "sleds" => \A k \in 1 .. Len(sleds) : sleds[k] + SLED <= start
    /\ SledsCovered

Reported(i, n) == \E k \in 1 .. Len(runs) : runs[k].offset = i /\ runs[k].length = n

(* The search for runs goes on at a place where a run may begin, with every*)
(* maximal run in front of it reported.                                    *)
RunInv ==
    /\ scan \in {"uncalled", "sleds"} => runs = <<>>
    /\ \A k \in 1 .. Len(runs) : MaximalRun(runs[k].offset, runs[k].length)
    /\ scan \in {"runs", "pointers", "done"} =>
          \A i, n \in Nat : MaximalRun(i, n) /\ (scan = "runs" => i < start) => Reported(i, n)
    /\ scan = "runs" /\ 0 < start /\ start < Len(payload) => At(start - 1) # At(start)

IsPointer(i) == i <= LastOffset /\ Value(i) # 0 /\ IsCandidate(Value(i), i)

Listed(i) == \E k \in 1 .. Len(pointers) : pointers[k] = i

(* Of the offsets in front of start exactly the pointers are listed. *)
PointerInv ==
    /\ scan \in {"uncalled", "sleds", "runs"} => pointers = <<>>
    /\ scan \in {"pointers", "done"} =>
          \A i \in Nat : Listed(i) <=> IsPointer(i) /\ (scan = "pointers" => i < start)

ScanInv ==
    /\ ScanType
    /\ SledInv
    /\ RunInv
    /\ PointerInv

-----------------------------------------------------------------------------
(* Sequences and numbers. *)

LEMMA Numbers ==
    /\ SLED \in Nat /\ SLED >= 1
    /\ RUN \in Nat /\ RUN >= 2
    /\ WORD \in Nat /\ WORD >= 1
    /\ BYTE \in Nat /\ BYTE >= 1
BY DpiAssumption

LEMMA EmptySequence == Len(<<>>) = 0 /\ \A i : i \notin 1 .. Len(<<>>)
<1>1. Len(<<>>) = 0
  BY EmptySeq
<1> QED
  BY <1>1

(* list.append *)
LEMMA AppendFacts ==
    ASSUME NEW S, NEW q \in Seq(S), NEW e \in S
    PROVE  /\ Len(q) \in Nat
           /\ Append(q, e) \in Seq(S)
           /\ Len(Append(q, e)) = Len(q) + 1
           /\ \A i \in 1 .. Len(q) : i \in 1 .. Len(Append(q, e)) /\ Append(q, e)[i] = q[i]
           /\ Len(q) + 1 \in 1 .. Len(Append(q, e)) /\ Append(q, e)[Len(q) + 1] = e
           /\ \A i \in 1 .. Len(Append(q, e)) : i \in 1 .. Len(q) \/ i = Len(q) + 1
<1>1. /\ Append(q, e) \in Seq(S)
      /\ Len(Append(q, e)) = Len(q) + 1
      /\ \A i \in 1 .. Len(q) : Append(q, e)[i] = q[i]
      /\ Append(q, e)[Len(q) + 1] = e
  BY AppendProperties
<1>2. Len(q) \in Nat
  BY LenProperties
<1> QED
  BY <1>1, <1>2

-----------------------------------------------------------------------------
(* Runs of one byte. *)

(* A run contains its beginnings, *)
LEMMA SameShorter ==
    ASSUME Len(payload) \in Nat,
           NEW i \in Nat, NEW n \in Nat, NEW m \in Nat, m <= n, Same(i, n)
    PROVE  Same(i, m)
<1>1. i + m <= Len(payload)
  BY DEF Same
<1>2. \A k \in i .. i + m - 1 : k \in i .. i + n - 1
  OBVIOUS
<1> QED
  BY <1>1, <1>2 DEF Same

(* ends where the byte changes, *)
LEMMA SameEnds ==
    ASSUME Len(payload) \in Nat,
           NEW i \in Nat, NEW n \in Nat, n >= 1, Same(i, n), ~ Same(i, n + 1),
           i + n < Len(payload)
    PROVE  At(i + n) # At(i + n - 1)
<1>1. i + (n + 1) <= Len(payload)
  OBVIOUS
<1>2. PICK k \in i .. i + (n + 1) - 1 : At(k) # At(i)
  BY <1>1 DEF Same
<1>3. k = i + n
  <2>1. k \in i .. i + n - 1 \/ k = i + n
    BY <1>2
  <2> QED
    BY <1>2, <2>1 DEF Same
<1>4. At(i + n - 1) = At(i)
  BY DEF Same
<1> QED
  BY <1>2, <1>3, <1>4

(* and grows to the left over a byte of its own. *)
LEMMA SameLonger ==
    ASSUME Len(payload) \in Nat,
           NEW i \in Nat, i >= 1, NEW n \in Nat, n >= 1, Same(i, n), At(i - 1) = At(i)
    PROVE  Same(i - 1, n)
<1>1. (i - 1) + n <= Len(payload)
  BY DEF Same
<1>2. ASSUME NEW k \in i - 1 .. (i - 1) + n - 1
      PROVE  At(k) = At(i - 1)
  <2>1. k = i - 1 \/ k \in i .. i + n - 1
    BY <1>2
  <2> QED
    BY <2>1 DEF Same
<1> QED
  BY <1>1, <1>2 DEF Same

(* Inside a run no run begins. *)
LEMMA SameInside ==
    ASSUME NEW i \in Nat, NEW n \in Nat, NEW j \in Nat, i < j, j < i + n, Same(i, n)
    PROVE  At(j - 1) = At(j)
<1>1. j - 1 \in i .. i + n - 1 /\ j \in i .. i + n - 1
  OBVIOUS
<1> QED
  BY <1>1 DEF Same

(* A maximal run has one length. *)
LEMMA MaximalUnique ==
    ASSUME Len(payload) \in Nat, NEW i \in Nat, NEW n \in Nat, NEW m \in Nat,
           Same(i, n), ~ Same(i, n + 1), Same(i, m), ~ Same(i, m + 1)
    PROVE  n = m
<1>1. ~ (n < m)
  BY SameShorter
<1>2. ~ (m < n)
  BY SameShorter
<1> QED
  BY <1>1, <1>2

-----------------------------------------------------------------------------
(* The loops of scan_payload. *)

(* What a loop does not touch. *)
LEMMA SledKept ==
    ASSUME SledInv, UNCHANGED <<payload, sleds>>,
           scan \in {"runs", "pointers"}, scan' \in {"runs", "pointers", "done"}
    PROVE  SledInv'
<1>1. \A i : IsSled(i)' <=> IsSled(i)
  BY DEF IsSled, Same, At
<1>2. Passed("sleds")' = Passed("sleds")
  BY DEF Passed
<1>3. SledsCovered'
  BY <1>1, <1>2 DEF SledInv, SledsCovered
<1> QED
  BY <1>3 DEF SledInv

LEMMA RunKept ==
    ASSUME RunInv, UNCHANGED <<payload, runs>>,
           scan \in {"pointers", "done"}, scan' \in {"pointers", "done"}
    PROVE  RunInv'
<1>1. \A i, n : MaximalRun(i, n)' <=> MaximalRun(i, n)
  BY DEF MaximalRun, Same, At
<1>2. \A i, n : Reported(i, n)' <=> Reported(i, n)
  BY DEF Reported
<1> QED
  BY <1>1, <1>2 DEF RunInv

LEMMA PointerKept ==
    ASSUME PointerInv, UNCHANGED <<payload, got, pointers>>,
           scan \in {"sleds", "runs"}, scan' \in {"sleds", "runs"}
    PROVE  PointerInv'
BY DEF PointerInv

(* A run or a sled lies in the payload. *)
LEMMA SameOffset ==
    ASSUME Len(payload) \in Nat, NEW i \in Nat, NEW n \in Nat, n >= 1, Same(i, n)
    PROVE  i \in Offsets
BY DEF Same, Offsets

(* payload.find(NOP_SLED, start), and start = idx + len(NOP_SLED). *)
LEMMA FindSledInv == ScanInv /\ FindSled => ScanInv'
<1> SUFFICES ASSUME ScanInv, FindSled PROVE ScanInv'
  OBVIOUS
<1>1. /\ scan = "sleds" /\ start \in Nat /\ sleds \in Seq(Nat) /\ payload \in Seq(0 .. BYTE - 1)
      /\ Len(payload) \in Nat /\ Len(sleds) \in Nat /\ DOMAIN sleds = 1 .. Len(sleds)
      /\ UNCHANGED <<payload, got, runs, pointers>>
  BY LenProperties DEF FindSled, ScanInv, ScanType
<1>2. \A i : IsSled(i)' <=> IsSled(i)
  BY <1>1 DEF IsSled, Same, At
<1>3. /\ \A k \in 1 .. Len(sleds) : IsSled(sleds[k]) /\ sleds[k] + SLED <= start
      /\ \A k \in 1 .. Len(sleds) : k > 1 => sleds[k] >= sleds[k - 1] + SLED
      /\ \A i \in 0 .. start - 1 : IsSled(i) =>
            \E k \in 1 .. Len(sleds) : sleds[k] <= i /\ i < sleds[k] + SLED
  BY <1>1 DEF ScanInv, SledInv, SledsCovered, Passed
<1>4. runs = <<>> /\ pointers = <<>>
  BY <1>1 DEF ScanInv, RunInv, PointerInv
<1>5. ASSUME NEW i \in Offsets,
             First({j \in Offsets : IsSled(j)}, i),
             sleds' = Append(sleds, i), start' = AfterSled(i), UNCHANGED scan
      PROVE  ScanInv'
  <2>1. i \in Nat /\ i < Len(payload)
    BY <1>1 DEF Offsets
  <2>2. IsSled(i) /\ i >= start /\ \A j \in Offsets : IsSled(j) => j < start \/ i <= j
    BY <1>5 DEF First
  <2>3. start' = i + SLED /\ start' \in Nat
    BY <1>5, <2>1, Numbers DEF AfterSled
  <2>4. /\ sleds' \in Seq(Nat)
        /\ Len(sleds') = Len(sleds) + 1 /\ DOMAIN sleds' = 1 .. Len(sleds')
        /\ \A k \in 1 .. Len(sleds) : k \in 1 .. Len(sleds') /\ sleds'[k] = sleds[k]
        /\ Len(sleds) + 1 \in 1 .. Len(sleds') /\ sleds'[Len(sleds) + 1] = i
        /\ \A k \in 1 .. Len(sleds') : k \in 1 .. Len(sleds) \/ k = Len(sleds) + 1
    BY <1>1, <1>5, <2>1, AppendFacts, LenProperties
  <2>5. \A k \in 1 .. Len(sleds) : sleds[k] \in Nat
    BY <1>1, ElementOfSeq
  <2>6. ScanType'
    BY <1>1, <1>5, <2>3, <2>4 DEF ScanInv, ScanType
  <2>7. \A k \in 1 .. Len(sleds') : IsSled(sleds'[k]) /\ sleds'[k] + SLED <= start'
    <3>1. \A k \in 1 .. Len(sleds) : sleds[k] + SLED <= i + SLED
      BY <1>1, <1>3, <2>1, <2>2, <2>5, Numbers
    <3>2. i + SLED <= i + SLED
      BY <2>1, Numbers
    <3> QED
      BY <1>3, <2>2, <2>3, <2>4, <3>1, <3>2
  <2>8. \A k \in 1 .. Len(sleds') : k > 1 => sleds'[k] >= sleds'[k - 1] + SLED
    <3>1. ASSUME NEW k \in 1 .. Len(sleds'), k > 1
          PROVE  sleds'[k] >= sleds'[k - 1] + SLED
      <4>1. k - 1 \in 1 .. Len(sleds)
        BY <1>1, <2>4, <3>1
      <4>2. CASE k \in 1 .. Len(sleds)
        BY <1>3, <2>4, <3>1, <4>1, <4>2
      <4>3. CASE k = Len(sleds) + 1
        <5>1. sleds[k - 1] + SLED <= start
          BY <1>3, <4>1
        <5>2. i >= sleds[k - 1] + SLED
          BY <1>1, <2>1, <2>2, <2>5, <4>1, <5>1, Numbers
        <5> QED
          BY <2>4, <4>1, <4>3, <5>2
      <4> QED
        BY <2>4, <4>2, <4>3
    <3> QED
      BY <3>1
  <2>9. ASSUME NEW j \in 0 .. start' - 1, IsSled(j)
        PROVE  \E k \in 1 .. Len(sleds') : sleds'[k] <= j /\ j < sleds'[k] + SLED
    <3>1. j \in Nat /\ j < i + SLED
      BY <2>1, <2>3, <2>9, Numbers
    <3>2. CASE j < start
      <4>1. j \in 0 .. start - 1
        BY <1>1, <3>1, <3>2
      <4> QED
        BY <1>3, <2>4, <2>9, <4>1
    <3>3. CASE ~ (j < start)
      <4>1. j \in Offsets
        BY <1>1, <2>9, <3>1, Numbers, SameOffset DEF IsSled
      <4>2. i <= j
        BY <2>2, <2>9, <3>3, <4>1
      <4> QED
        BY <2>4, <3>1, <4>2
    <3> QED
      BY <3>2, <3>3
  <2>10. SledInv'
    <3>1. Passed("sleds")' = start'
      BY <1>1, <1>5 DEF Passed
    <3>2. \A k \in DOMAIN sleds' : IsSled(sleds[k])'
      BY <1>2, <2>4, <2>7
    <3>3. \A j \in 0 .. start' - 1 : IsSled(j)' =>
             \E k \in DOMAIN sleds' : sleds'[k] <= j /\ j < sleds'[k] + SLED
      BY <1>2, <2>4, <2>9
    <3>4. SledsCovered'
      BY <2>4, <2>8, <3>1, <3>2, <3>3 DEF SledsCovered
    <3> QED
      BY <1>1, <1>5, <2>7, <3>4 DEF SledInv
  <2>11. RunInv'
    BY <1>1, <1>4, <1>5, EmptySequence DEF RunInv
  <2>12. PointerInv'
    BY <1>1, <1>5, PointerKept DEF ScanInv
  <2> QED
    BY <2>6, <2>10, <2>11, <2>12 DEF ScanInv
<1>6. ASSUME \A i \in start .. Len(payload) - 1 : ~ IsSled(i),
             scan' = "runs", start' = 0, UNCHANGED sleds
      PROVE  ScanInv'
  <2>1. ScanType'
    BY <1>1, <1>6 DEF ScanInv, ScanType
  <2>2. ASSUME NEW j \in 0 .. Len(payload) - 1, IsSled(j)
        PROVE  \E k \in 1 .. Len(sleds) : sleds[k] <= j /\ j < sleds[k] + SLED
    <3>1. j \in 0 .. start - 1
      BY <1>1, <1>6, <2>2
    <3> QED
      BY <1>3, <2>2, <3>1
  <2>3. SledInv'
    <3>1. Passed("sleds")' = Len(payload)
      BY <1>1, <1>6 DEF Passed
    <3>2. SledsCovered'
      BY <1>1, <1>2, <1>3, <1>6, <2>2, <3>1 DEF SledsCovered
    <3> QED
      BY <1>6, <3>2 DEF SledInv
  <2>4. RunInv'
    <3>1. \A i \in Nat : ~ (i < 0)
      OBVIOUS
    <3> QED
      BY <1>1, <1>4, <1>6, <3>1, EmptySequence DEF RunInv
  <2>5. PointerInv'
    BY <1>1, <1>6, PointerKept DEF ScanInv
  <2> QED
    BY <2>1, <2>3, <2>4, <2>5 DEF ScanInv
<1> QED
  BY <1>5, <1>6 DEF FindSled

(* finditer of the regular expression: a greedy match, and on behind it. *)
LEMMA FindRunInv == ScanInv /\ FindRun => ScanInv'
<1> SUFFICES ASSUME ScanInv, FindRun PROVE ScanInv'
  OBVIOUS
<1>1. /\ scan = "runs" /\ start \in Nat /\ payload \in Seq(0 .. BYTE - 1)
      /\ runs \in Seq([offset : Nat, length : Nat])
      /\ Len(payload) \in Nat
      /\ UNCHANGED <<payload, got, sleds, pointers>>
  BY LenProperties DEF FindRun, ScanInv, ScanType
<1>2. /\ \A i, n : Same(i, n)' <=> Same(i, n)
      /\ \A i : At(i)' = At(i)
      /\ \A i, n : MaximalRun(i, n)' <=> MaximalRun(i, n)
  BY <1>1 DEF MaximalRun, Same, At
<1>3. /\ \A k \in 1 .. Len(runs) : MaximalRun(runs[k].offset, runs[k].length)
      /\ \A i, n \in Nat : MaximalRun(i, n) /\ i < start => Reported(i, n)
      /\ 0 < start /\ start < Len(payload) => At(start - 1) # At(start)
  BY <1>1 DEF ScanInv, RunInv
<1>4. scan' \in {"runs", "pointers"}
  BY <1>1 DEF FindRun
<1>5. SledInv'
  BY <1>1, <1>4, SledKept DEF ScanInv
<1>6. ASSUME NEW i \in start .. Len(payload) - 1, NEW n \in RUN .. Len(payload),
             First({j \in Offsets : IsRun(j)}, i),
             MatchLength(i, n),
             runs' = Append(runs, [offset |-> i, length |-> n]),
             start' = i + n,
             UNCHANGED scan
      PROVE  ScanInv'
  <2>1. i \in Nat /\ i < Len(payload) /\ start <= i /\ n \in Nat /\ n >= RUN /\ n >= 1
    BY <1>1, Numbers
  <2>2. Same(i, n) /\ ~ Same(i, n + 1)
    BY <1>6 DEF MatchLength
  <2>3. ASSUME NEW j \in Nat, start <= j, j < i
        PROVE  ~ Same(j, RUN)
    <3>1. ASSUME Same(j, RUN) PROVE FALSE
      <4>1. j \in Offsets
        BY <1>1, <3>1, Numbers, SameOffset
      <4>2. j < start \/ i <= j
        BY <1>6, <3>1, <4>1 DEF First, IsRun
      <4> QED
        BY <1>1, <2>1, <2>3, <4>2
    <3> QED
      BY <3>1
  <2>4. MaximalRun(i, n)
    <3>1. ASSUME i > 0, At(i - 1) = At(i)
          PROVE  FALSE
      <4>1. CASE i = start
        BY <1>3, <2>1, <3>1, <4>1
      <4>2. CASE i # start
        <5>1. i - 1 \in Nat /\ start <= i - 1 /\ i - 1 < i /\ i >= 1
          BY <1>1, <2>1, <4>2
        <5>2. Same(i, RUN)
          BY <1>1, <2>1, <2>2, Numbers, SameShorter
        <5>3. Same(i - 1, RUN)
          BY <1>1, <2>1, <3>1, <5>1, <5>2, Numbers, SameLonger
        <5> QED
          BY <2>3, <5>1, <5>3
      <4> QED
        BY <4>1, <4>2
    <3> QED
      BY <2>1, <2>2, <3>1 DEF MaximalRun
  <2> DEFINE r == [offset |-> i, length |-> n]
  <2>5. r \in [offset : Nat, length : Nat] /\ r.offset = i /\ r.length = n
    BY <2>1
  <2>6. runs' = Append(runs, r)
    BY <1>6
  <2> HIDE DEF r
  <2>7. /\ runs' \in Seq([offset : Nat, length : Nat])
        /\ \A k \in 1 .. Len(runs) : k \in 1 .. Len(runs') /\ runs'[k] = runs[k]
        /\ Len(runs) + 1 \in 1 .. Len(runs') /\ runs'[Len(runs) + 1] = r
        /\ \A k \in 1 .. Len(runs') : k \in 1 .. Len(runs) \/ k = Len(runs) + 1
    BY <1>1, <2>5, <2>6, AppendFacts
  <2>8. \A j, m : Reported(j, m)' <=> Reported(j, m) \/ (j = i /\ m = n)
    BY <2>5, <2>7 DEF Reported
  <2>9. \A k \in 1 .. Len(runs') : MaximalRun(runs'[k].offset, runs'[k].length)
    BY <1>3, <2>4, <2>5, <2>7
  <2>10. ASSUME NEW j \in Nat, NEW m \in Nat, MaximalRun(j, m), j < i + n
         PROVE  Reported(j, m)'
    <3>1. CASE j < start
      BY <1>3, <2>8, <2>10, <3>1
    <3>2. CASE start <= j /\ j < i
      <4>1. m >= RUN /\ Same(j, m)
        BY <2>10 DEF MaximalRun
      <4>2. Same(j, RUN)
        BY <1>1, <4>1, Numbers, SameShorter
      <4> QED
        BY <2>3, <3>2, <4>2
    <3>3. CASE j = i
      <4>1. Same(i, m) /\ ~ Same(i, m + 1)
        BY <2>10, <3>3 DEF MaximalRun
      <4>2. m = n
        BY <1>1, <2>1, <2>2, <4>1, MaximalUnique
      <4> QED
        BY <2>8, <3>3, <4>2
    <3>4. CASE i < j
      <4>1. At(j - 1) = At(j)
        BY <2>1, <2>2, <2>10, <3>4, SameInside
      <4>2. j > 0
        BY <2>1, <3>4
      <4> QED
        BY <2>10, <4>1, <4>2 DEF MaximalRun
    <3> QED
      BY <1>1, <2>1, <3>1, <3>2, <3>3, <3>4
  <2>11. i + n < Len(payload) => At(i + n - 1) # At(i + n)
    BY <1>1, <2>1, <2>2, SameEnds
  <2>12. RunInv'
    <3>1. \A k \in 1 .. Len(runs') : MaximalRun(runs[k].offset, runs[k].length)'
      BY <1>2, <2>9
    <3>2. \A j, m \in Nat : MaximalRun(j, m)' /\ j < start' => Reported(j, m)'
      BY <1>2, <1>6, <2>10
    <3>3. start' < Len(payload') => (At(start - 1) # At(start))'
      BY <1>1, <1>6, <2>11 DEF At
    <3> QED
      BY <1>1, <1>6, <3>1, <3>2, <3>3 DEF RunInv
  <2>13. ScanType'
    BY <1>1, <1>6, <2>1, <2>7 DEF ScanInv, ScanType
  <2>14. PointerInv'
    BY <1>1, <1>6, PointerKept DEF ScanInv
  <2> QED
    BY <1>5, <2>12, <2>13, <2>14 DEF ScanInv
<1>7. ASSUME \A i \in start .. Len(payload) - 1 : ~ IsRun(i),
             scan' = "pointers", start' = 0, UNCHANGED runs
      PROVE  ScanInv'
  <2>1. ScanType'
    BY <1>1, <1>7 DEF ScanInv, ScanType
  <2>2. ASSUME NEW j \in Nat, NEW m \in Nat, MaximalRun(j, m)
        PROVE  Reported(j, m)
    <3>1. CASE j < start
      BY <1>3, <2>2, <3>1
    <3>2. CASE ~ (j < start)
      <4>1. m >= RUN /\ Same(j, m)
        BY <2>2 DEF MaximalRun
      <4>2. Same(j, RUN)
        BY <1>1, <4>1, Numbers, SameShorter
      <4>3. j \in Offsets
        BY <1>1, <4>2, Numbers, SameOffset
      <4>4. j \in start .. Len(payload) - 1
        BY <1>1, <3>2, <4>3 DEF Offsets
      <4> QED
        BY <1>7, <4>2, <4>4 DEF IsRun
    <3> QED
      BY <3>1, <3>2
  <2>3. RunInv'
    <3>1. \A j, m : Reported(j, m)' <=> Reported(j, m)
      BY <1>7 DEF Reported
    <3>2. \A j, m \in Nat : MaximalRun(j, m)' => Reported(j, m)'
      BY <1>2, <2>2, <3>1
    <3>3. \A k \in 1 .. Len(runs') : MaximalRun(runs[k].offset, runs[k].length)'
      BY <1>2, <1>3, <1>7
    <3> QED
      BY <1>7, <3>2, <3>3 DEF RunInv
  <2>4. PointerInv'
    <3>1. pointers' = <<>>
      BY <1>1 DEF ScanInv, PointerInv
    <3>2. \A i \in Nat : ~ (i < 0)
      OBVIOUS
    <3>3. \A i : ~ Listed(i)'
      BY <3>1, EmptySequence DEF Listed
    <3> QED
      BY <1>7, <3>2, <3>3 DEF PointerInv
  <2> QED
    BY <1>5, <2>1, <2>3, <2>4 DEF ScanInv
<1> QED
  BY <1>6, <1>7 DEF FindRun

(* Whether a word is a pointer depends on the payload and the range only. *)
LEMMA PointerSame ==
    ASSUME UNCHANGED <<payload, got>>
    PROVE  \A i : IsPointer(i)' <=> IsPointer(i)
<1>1. \A i : Value(i)' = Value(i)
  BY DEF Value, At
<1> QED
  BY <1>1 DEF IsPointer, IsCandidate, LastOffset

(* for i in range(0, len(payload) - 7) *)
LEMMA CheckWordInv == ScanInv /\ CheckWord => ScanInv'
<1> SUFFICES ASSUME ScanInv, CheckWord PROVE ScanInv'
  OBVIOUS
<1>1. /\ scan = "pointers" /\ start \in Nat /\ pointers \in Seq(Nat)
      /\ payload \in Seq(0 .. BYTE - 1) /\ Len(payload) \in Nat
      /\ LastOffset \in Int
      /\ UNCHANGED <<payload, got, sleds, runs>>
      /\ scan' \in {"pointers", "done"}
  BY LenProperties, Numbers DEF CheckWord, ScanInv, ScanType, LastOffset
<1>2. SledInv' /\ RunInv'
  BY <1>1, SledKept, RunKept DEF ScanInv
<1>3. \A i : IsPointer(i)' <=> IsPointer(i)
  BY <1>1, PointerSame
<1>4. \A i \in Nat : Listed(i) <=> IsPointer(i) /\ i < start
  BY <1>1 DEF ScanInv, PointerInv
<1>5. ASSUME start <= LastOffset,
             pointers' = IF Value(start) # 0 /\ IsCandidate(Value(start), start)
                         THEN Append(pointers, start) ELSE pointers,
             start' = start + 1, UNCHANGED scan
      PROVE  ScanInv'
  <2>1. pointers' = IF IsPointer(start) THEN Append(pointers, start) ELSE pointers
    BY <1>5 DEF IsPointer
  <2>2. pointers' \in Seq(Nat) /\ \A i : Listed(i)' <=> Listed(i) \/ (i = start /\ IsPointer(start))
    <3>1. CASE IsPointer(start)
      <4>1. /\ pointers' \in Seq(Nat)
            /\ \A k \in 1 .. Len(pointers) : k \in 1 .. Len(pointers') /\ pointers'[k] = pointers[k]
            /\ Len(pointers) + 1 \in 1 .. Len(pointers') /\ pointers'[Len(pointers) + 1] = start
            /\ \A k \in 1 .. Len(pointers') : k \in 1 .. Len(pointers) \/ k = Len(pointers) + 1
        BY <1>1, <2>1, <3>1, AppendFacts
      <4> QED
        BY <3>1, <4>1 DEF Listed
    <3>2. CASE ~ IsPointer(start)
      BY <1>1, <2>1, <3>2 DEF Listed
    <3> QED
      BY <3>1, <3>2
  <2>3. \A i \in Nat : i < start + 1 <=> i < start \/ i = start
    BY <1>1
  <2>4. \A i \in Nat : Listed(i)' <=> IsPointer(i)' /\ i < start'
    BY <1>3, <1>4, <1>5, <2>2, <2>3
  <2>5. PointerInv'
    BY <1>1, <1>5, <2>4 DEF PointerInv
  <2>6. ScanType'
    BY <1>1, <1>5, <2>2 DEF ScanInv, ScanType
  <2> QED
    BY <1>2, <2>5, <2>6 DEF ScanInv
<1>6. ASSUME start > LastOffset, scan' = "done", UNCHANGED <<start, pointers>>
      PROVE  ScanInv'
  <2>1. \A i \in Nat : IsPointer(i) => i < start
    BY <1>1, <1>6 DEF IsPointer
  <2>2. \A i \in Nat : Listed(i)' <=> IsPointer(i)'
    BY <1>3, <1>4, <1>6, <2>1 DEF Listed
  <2>3. PointerInv'
    BY <1>6, <2>2 DEF PointerInv
  <2>4. ScanType'
    BY <1>1, <1>6 DEF ScanInv, ScanType
  <2> QED
    BY <1>2, <2>3, <2>4 DEF ScanInv
<1> QED
  BY <1>5, <1>6 DEF CheckWord

(* The call. *)
LEMMA ScanPayloadInv ==
    ASSUME ScanInv, NEW bytes \in Seq(0 .. BYTE - 1), scan_payload(bytes, got)
    PROVE  ScanInv'
<1>1. /\ scan = "uncalled" /\ payload' = bytes /\ got' = got
      /\ scan' = IF bytes = <<>> THEN "done" ELSE "sleds"
      /\ UNCHANGED <<start, sleds, runs, pointers>>
      /\ start = 0 /\ sleds = <<>> /\ runs = <<>> /\ pointers = <<>>
  BY DEF scan_payload, ScanInv, ScanType, SledInv, RunInv, PointerInv
<1>2. ScanType'
  BY <1>1 DEF ScanInv, ScanType
<1>3. /\ \A i : ~ Listed(i)'
      /\ \A i : i \notin 1 .. Len(sleds') /\ i \notin DOMAIN sleds'
      /\ \A i : i \notin 1 .. Len(runs')
  BY <1>1, EmptySequence DEF Listed
<1>4. CASE bytes = <<>>
  <2>1. scan' = "done" /\ Len(payload') = 0
    BY <1>1, <1>4, EmptySequence
  <2>2. SledInv'
    <3>1. Passed("sleds")' = 0 /\ \A i : i \notin 0 .. 0 - 1
      BY <2>1 DEF Passed
    <3>2. SledsCovered'
      BY <1>3, <3>1 DEF SledsCovered
    <3> QED
      BY <2>1, <3>2 DEF SledInv
  <2>3. RunInv'
    <3>1. \A i, n \in Nat : ~ MaximalRun(i, n)'
      BY <2>1, Numbers DEF MaximalRun, Same
    <3> QED
      BY <1>3, <2>1, <3>1 DEF RunInv
  <2>4. PointerInv'
    <3>1. \A i \in Nat : ~ IsPointer(i)'
      BY <2>1, Numbers DEF IsPointer, LastOffset
    <3> QED
      BY <1>3, <2>1, <3>1 DEF PointerInv
  <2> QED
    BY <1>2, <2>2, <2>3, <2>4 DEF ScanInv
<1>5. CASE bytes # <<>>
  <2>1. scan' = "sleds"
    BY <1>1, <1>5
  <2>2. SledInv'
    <3>1. Passed("sleds")' = 0 /\ \A i : i \notin 0 .. 0 - 1
      BY <1>1, <2>1 DEF Passed
    <3>2. SledsCovered'
      BY <1>3, <3>1 DEF SledsCovered
    <3> QED
      BY <1>3, <2>1, <3>2 DEF SledInv
  <2>3. RunInv'
    BY <1>1, <1>3, <2>1 DEF RunInv
  <2>4. PointerInv'
    BY <1>1, <2>1 DEF PointerInv
  <2> QED
    BY <1>2, <2>2, <2>3, <2>4 DEF ScanInv
<1> QED
  BY <1>4, <1>5

-----------------------------------------------------------------------------
(* struct.unpack. *)

(* A non-empty set of naturals has a least element. *)
LEMMA LeastElement ==
    ASSUME NEW T \in SUBSET Nat, T # {}
    PROVE  \E x \in T : \A y \in T : x <= y
<1>1. PICK x \in T : \A y \in T : ~ (<<y, x>> \in OpToRel(<, Nat))
  BY NatLessThanWellFounded, WFMin
<1>2. \A y \in T : ~ (y < x)
  BY <1>1 DEF OpToRel
<1> QED
  BY <1>2

(* The value of the last m bytes, for the bytes a[1], a[2], ... *)
IsHorner(f, a, b, m) ==
    f = [n \in 0 .. m |-> IF n = 0 THEN 0 ELSE a[n] + b * f[n - 1]]

(* The recursion that builds a value up from its last byte has a solution, *)
(* for as long as it takes: were there a shortest length without one, the  *)
(* solution for one byte less could be extended.                           *)
LEMMA HornerExists ==
    ASSUME NEW W \in Nat, NEW a, NEW b
    PROVE  \E f : IsHorner(f, a, b, W)
<1> DEFINE T == {m \in Nat : ~ \E f : IsHorner(f, a, b, m)}
<1>1. ASSUME T # {} PROVE FALSE
  <2>1. T \in SUBSET Nat
    OBVIOUS
  <2>2. PICK m \in T : \A y \in T : m <= y
    BY <1>1, <2>1, LeastElement
  <2>3. m # 0
    <3>1. IsHorner([n \in 0 .. 0 |-> 0], a, b, 0)
      BY DEF IsHorner
    <3> QED
      BY <2>2, <3>1
  <2>4. m \in Nat /\ m - 1 \in Nat /\ m - 1 \notin T
    BY <2>2, <2>3
  <2>5. PICK f : IsHorner(f, a, b, m - 1)
    BY <2>4
  <2> DEFINE g == [n \in 0 .. m |-> IF n = m THEN a[m] + b * f[m - 1] ELSE f[n]]
  <2>6. IsHorner(g, a, b, m)
    <3>1. \A n \in 0 .. m : g[n] = IF n = 0 THEN 0 ELSE a[n] + b * g[n - 1]
      <4>1. ASSUME NEW n \in 0 .. m
            PROVE  g[n] = IF n = 0 THEN 0 ELSE a[n] + b * g[n - 1]
        <5>1. CASE n = m
          <6>1. m - 1 \in 0 .. m /\ m - 1 # m
            BY <2>4
          <6> QED
            BY <2>3, <5>1, <6>1
        <5>2. CASE n # m /\ n # 0
          <6>1. n \in 0 .. m - 1 /\ n - 1 \in 0 .. m /\ n - 1 # m
            BY <2>4, <5>2
          <6>2. f[n] = a[n] + b * f[n - 1]
            BY <2>5, <5>2, <6>1 DEF IsHorner
          <6> QED
            BY <5>2, <6>1, <6>2
        <5>3. CASE n # m /\ n = 0
          <6>1. 0 \in 0 .. m - 1
            BY <2>4
          <6>2. f[0] = 0
            BY <2>5, <6>1 DEF IsHorner
          <6> QED
            BY <5>3, <6>2
        <5> QED
          BY <5>1, <5>2, <5>3
      <4> QED
        BY <4>1
    <3> HIDE DEF g
    <3>2. g = [n \in 0 .. m |-> g[n]]
      BY DEF g
    <3> QED
      BY <3>1, <3>2 DEF IsHorner
  <2> QED
    BY <2>2, <2>6
<1> QED
  BY <1>1

(* and its value is a number when the bytes are. *)
LEMMA HornerInt ==
    ASSUME NEW W \in Nat, NEW a, NEW b \in Int, NEW f, IsHorner(f, a, b, W),
           \A n \in 1 .. W : a[n] \in Int
    PROVE  f[W] \in Int
<1> DEFINE T == {m \in Nat : m <= W /\ f[m] \notin Int}
<1>1. ASSUME T # {} PROVE FALSE
  <2>1. T \in SUBSET Nat
    OBVIOUS
  <2>2. PICK m \in T : \A y \in T : m <= y
    BY <1>1, <2>1, LeastElement
  <2>3. m \in 0 .. W /\ f[m] = IF m = 0 THEN 0 ELSE a[m] + b * f[m - 1]
    <3>1. m \in 0 .. W
      BY <2>2
    <3> QED
      BY <3>1 DEF IsHorner
  <2>4. m # 0
    BY <2>2, <2>3
  <2>5. f[m - 1] \in Int /\ a[m] \in Int
    <3>1. m - 1 \in Nat /\ m - 1 <= W /\ ~ (m <= m - 1) /\ m \in 1 .. W
      BY <2>3, <2>4
    <3> QED
      BY <2>2, <3>1
  <2>6. b * f[m - 1] \in Int
    BY <2>5
  <2> QED
    BY <2>2, <2>3, <2>4, <2>5, <2>6
<1> QED
  BY <1>1

LEMMA ValueInt ==
    ASSUME ScanType, NEW i \in Nat, i <= LastOffset
    PROVE  Value(i) \in Int
<1> DEFINE a == [n \in 1 .. WORD |-> At(i + WORD - n)]
           f == CHOOSE g : g = [n \in 0 .. WORD |->
                                   IF n = 0 THEN 0 ELSE At(i + WORD - n) + BYTE * g[n - 1]]
<1>1. Value(i) = f[WORD]
  BY DEF Value
<1>2. ASSUME NEW g
      PROVE  IsHorner(g, a, BYTE, WORD) <=>
                g = [n \in 0 .. WORD |-> IF n = 0 THEN 0 ELSE At(i + WORD - n) + BYTE * g[n - 1]]
  <2>1. \A n \in 0 .. WORD : n # 0 => a[n] = At(i + WORD - n)
    BY Numbers
  <2> HIDE DEF a
  <2> QED
    BY <2>1 DEF IsHorner
<1>3. IsHorner(f, a, BYTE, WORD)
  <2>1. \E g : IsHorner(g, a, BYTE, WORD)
    <3> HIDE DEF a
    <3> QED
      BY Numbers, HornerExists
  <2> HIDE DEF a
  <2>2. \E g : g = [n \in 0 .. WORD |-> IF n = 0 THEN 0 ELSE At(i + WORD - n) + BYTE * g[n - 1]]
    BY <1>2, <2>1
  <2> QED
    BY <1>2, <2>2
<1>4. \A n \in 1 .. WORD : a[n] \in Int
  <2>1. ASSUME NEW n \in 1 .. WORD
        PROVE  At(i + WORD - n) \in Int
    <3>1. i + WORD - n + 1 \in 1 .. Len(payload) /\ payload \in Seq(0 .. BYTE - 1)
      BY <2>1, Numbers, LenProperties DEF ScanType, LastOffset
    <3>2. payload[i + WORD - n + 1] \in 0 .. BYTE - 1
      BY <3>1, ElementOfSeq
    <3> QED
      BY <3>2, Numbers DEF At
  <2> QED
    BY <2>1
<1> HIDE DEF a, f
<1>5. f[WORD] \in Int
  BY <1>3, <1>4, Numbers, HornerInt
<1> QED
  BY <1>1, <1>5

(* i % 8 == 0 says that a word begins at i. *)
LEMMA WordBegins ==
    ASSUME NEW i \in Nat, NEW n \in Nat, i <= n
    PROVE  i % WORD = 0 <=> \E word \in 0 .. n : i = word * WORD
<1>1. ASSUME i % WORD = 0
      PROVE  \E word \in 0 .. n : i = word * WORD
  <2>1. i \div WORD \in Nat /\ i = (i \div WORD) * WORD
    BY <1>1, Numbers
  <2>2. i \div WORD <= i
    BY <2>1, Numbers
  <2> QED
    BY <2>1, <2>2
<1>2. ASSUME NEW word \in 0 .. n, i = word * WORD
      PROVE  i % WORD = 0
  BY <1>2, Numbers
<1> QED
  BY <1>1, <1>2

-----------------------------------------------------------------------------
(* What the invariant says of the findings. *)

LEMMA ScanRunsMaximal == ScanInv => RunsMaximal
<1> SUFFICES ASSUME ScanInv, scan \in {"pointers", "done"}
             PROVE  {<<runs[k].offset, runs[k].length>> : k \in DOMAIN runs} =
                        {r \in (0 .. Len(payload)) \X (0 .. Len(payload)) : MaximalRun(r[1], r[2])}
  BY DEF RunsMaximal
<1>1. /\ DOMAIN runs = 1 .. Len(runs) /\ Len(payload) \in Nat
      /\ \A k \in 1 .. Len(runs) : runs[k] \in [offset : Nat, length : Nat]
  BY LenProperties, ElementOfSeq DEF ScanInv, ScanType
<1>2. ASSUME NEW k \in 1 .. Len(runs)
      PROVE  /\ runs[k].offset \in 0 .. Len(payload) /\ runs[k].length \in 0 .. Len(payload)
             /\ MaximalRun(runs[k].offset, runs[k].length)
  <2>1. MaximalRun(runs[k].offset, runs[k].length)
    BY DEF ScanInv, RunInv
  <2>2. runs[k].offset \in Nat /\ runs[k].length \in Nat
    BY <1>1
  <2> QED
    BY <1>1, <2>1, <2>2 DEF MaximalRun, Same
<1>3. ASSUME NEW i \in 0 .. Len(payload), NEW n \in 0 .. Len(payload), MaximalRun(i, n)
      PROVE  \E k \in 1 .. Len(runs) : <<runs[k].offset, runs[k].length>> = <<i, n>>
  <2>1. Reported(i, n)
    BY <1>1, <1>3 DEF ScanInv, RunInv
  <2> QED
    BY <2>1 DEF Reported
<1> QED
  BY <1>1, <1>2, <1>3

LEMMA ScanPointersComplete == ScanInv => PointersComplete
<1> SUFFICES ASSUME ScanInv, scan = "done", NEW i \in 0 .. Len(payload) - 1
             PROVE  (\E k \in DOMAIN pointers : pointers[k] = i) <=>
                        /\ i + WORD <= Len(payload)
                        /\ Value(i) # 0
                        /\ \/ /\ got # <<>>
                              /\ Value(i) \in got[1].base .. got[1].base + got[1].size - 1
                           \/ /\ got = <<>>
                              /\ Value(i) \in UserSpace
                              /\ \E word \in 0 .. Len(payload) : i = word * WORD
  BY DEF PointersComplete
<1>1. /\ DOMAIN pointers = 1 .. Len(pointers) /\ Len(payload) \in Nat
      /\ got \in Seq([base : Int, size : Int]) /\ ScanType
  BY LenProperties DEF ScanInv, ScanType
<1>2. i \in Nat /\ i <= Len(payload)
  BY <1>1
<1>3. (\E k \in DOMAIN pointers : pointers[k] = i) <=> IsPointer(i)
  BY <1>1, <1>2 DEF ScanInv, PointerInv, Listed
<1>4. i + WORD <= Len(payload) <=> i <= LastOffset
  BY <1>1, <1>2, Numbers DEF LastOffset
<1>5. got # <<>> => got[1].base \in Int /\ got[1].size \in Int
  <2>1. got # <<>> => 1 \in 1 .. Len(got)
    BY <1>1, EmptySeq, LenProperties
  <2>2. got # <<>> => got[1] \in [base : Int, size : Int]
    BY <1>1, <2>1, ElementOfSeq
  <2> QED
    BY <2>2
<1>6. i <= LastOffset => Value(i) \in Int
  BY <1>1, <1>2, ValueInt
<1>7. ASSUME got # <<>>, i <= LastOffset
      PROVE  IsCandidate(Value(i), i) <=>
                Value(i) \in got[1].base .. got[1].base + got[1].size - 1
  BY <1>5, <1>6, <1>7 DEF IsCandidate
<1>8. ASSUME got = <<>>
      PROVE  IsCandidate(Value(i), i) <=>
                /\ Value(i) \in UserSpace
                /\ \E word \in 0 .. Len(payload) : i = word * WORD
  BY <1>1, <1>2, <1>8, WordBegins DEF IsCandidate
<1> QED
  BY <1>3, <1>4, <1>7, <1>8 DEF IsPointer

-----------------------------------------------------------------------------
(* The range of the GOT. *)

Header == [name : GotName \cup OtherName, addr : Nat, size : Nat]

GotRange == [base : Int, size : Int]

ElfType ==
    /\ parser \in {"read_header", "cross_check", "string_table", "walk", "verify", "parsed",
                   "returned", "raised", "exited", "dropped"}
    /\ table \in Seq(Header)
    /\ got_sections \in [GotName -> {<<>>} \cup (Nat \X Nat)]
    /\ results \in Seq(Seq(GotRange))

(* What the walk has found is the last section of each name; the header is *)
(* read in front of it.                                                    *)
WalkInv ==
    /\ parser = "read_header" => table = <<>>
    /\ \A j \in 1 .. Len(table) :
          Counts(j) => got_sections[table[j].name] = <<table[j].addr, table[j].size>>

(* The latest call's answer covers every section that counts. *)
Covers(range, x) == range # <<>> /\ range[1].base <= x /\ x < range[1].base + range[1].size

ResultInv ==
    parser = "returned" =>
        /\ Len(results) >= 1
        /\ \A j \in 1 .. Len(table) : Counts(j) =>
              \A x \in table[j].addr .. table[j].addr + table[j].size - 1 :
                  Covers(results[Len(results)], x)

(* What scan_payload is given covers the GOT of the binary; before main has*)
(* its range nothing is scanned.                                           *)
GotInv ==
    /\ parser # "dropped" => scan = "uncalled"
    /\ gotBytes \subseteq Int
    /\ parser = "dropped" => \A x \in gotBytes : Covers(got, x)

DpiInv ==
    /\ ScanInv
    /\ ElfType
    /\ WalkInv
    /\ ResultInv
    /\ GotInv

(* min and max of one or two numbers. *)
LEMMA MinOfTwo ==
    ASSUME NEW a \in Int, NEW b \in Int, NEW T, T # {}, T \subseteq {a, b}
    PROVE  Min(T) \in T /\ \A x \in T : Min(T) <= x
<1>1. \E m \in T : \A x \in T : m <= x
  <2>1. CASE T = {a} \/ T = {b}
    BY <2>1
  <2>2. CASE T = {a, b}
    <3>1. CASE a <= b
      BY <2>2, <3>1
    <3>2. CASE b <= a
      BY <2>2, <3>2
    <3> QED
      BY <3>1, <3>2
  <2>3. T = {a} \/ T = {b} \/ T = {a, b}
    OBVIOUS
  <2> QED
    BY <2>1, <2>2, <2>3
<1> QED
  BY <1>1 DEF Min

LEMMA MaxOfTwo ==
    ASSUME NEW a \in Int, NEW b \in Int, NEW T, T # {}, T \subseteq {a, b}
    PROVE  Max(T) \in T /\ \A x \in T : Max(T) >= x
<1>1. \E m \in T : \A x \in T : m >= x
  <2>1. CASE T = {a} \/ T = {b}
    BY <2>1
  <2>2. CASE T = {a, b}
    <3>1. CASE a <= b
      BY <2>2, <3>1
    <3>2. CASE b <= a
      BY <2>2, <3>2
    <3> QED
      BY <3>1, <3>2
  <2>3. T = {a} \/ T = {b} \/ T = {a, b}
    OBVIOUS
  <2> QED
    BY <2>1, <2>2, <2>3
<1> QED
  BY <1>1 DEF Max

(* The span reaches from the lowest start to the highest end. *)
LEMMA SpanCovers ==
    ASSUME got_sections \in [GotName -> {<<>>} \cup (Nat \X Nat)], found # {}
    PROVE  /\ Span \in Seq(GotRange)
           /\ \A s \in found : \A x \in s[1] .. s[1] + s[2] - 1 : Covers(Span, x)
<1> DEFINE g == got_sections[".got"]
           p == got_sections[".got.plt"]
           bases == {s[1] : s \in found}
           ends == {s[1] + s[2] : s \in found}
           a == IF g = <<>> THEN 0 ELSE g[1]
           b == IF p = <<>> THEN 0 ELSE p[1]
           c == IF g = <<>> THEN 0 ELSE g[1] + g[2]
           d == IF p = <<>> THEN 0 ELSE p[1] + p[2]
<1>1. /\ g # <<>> => g \in Nat \X Nat
      /\ p # <<>> => p \in Nat \X Nat
  BY DEF GotName
<1>2. \A s \in found : (s = g /\ g # <<>>) \/ (s = p /\ p # <<>>)
  <2>1. ASSUME NEW s \in found
        PROVE  (s = g /\ g # <<>>) \/ (s = p /\ p # <<>>)
    <3>1. PICK name \in GotName : s = got_sections[name] /\ got_sections[name] # <<>>
      BY <2>1 DEF found
    <3>2. name = ".got" \/ name = ".got.plt"
      BY DEF GotName
    <3> QED
      BY <3>1, <3>2
  <2> QED
    BY <2>1
<1> HIDE DEF g, p
<1>3. a \in Int /\ b \in Int /\ c \in Int /\ d \in Int
  BY <1>1
<1>4. bases # {} /\ ends # {} /\ bases \subseteq {a, b} /\ ends \subseteq {c, d}
  BY <1>2
<1> HIDE DEF a, b, c, d
<1>5. Min(bases) \in bases /\ \A x \in bases : Min(bases) <= x
  <2> HIDE DEF bases
  <2> QED
    BY <1>3, <1>4, MinOfTwo
<1>6. Max(ends) \in ends /\ \A x \in ends : Max(ends) >= x
  <2> HIDE DEF ends
  <2> QED
    BY <1>3, <1>4, MaxOfTwo
<1>7. Min(bases) \in Int /\ Max(ends) \in Int
  BY <1>3, <1>4, <1>5, <1>6
<1>8. Span = <<[base |-> Min(bases), size |-> Max(ends) - Min(bases)]>>
  BY DEF Span
<1>9. [base |-> Min(bases), size |-> Max(ends) - Min(bases)] \in GotRange
  BY <1>7 DEF GotRange
<1>10. Span \in Seq(GotRange) /\ Span # <<>>
       /\ Span[1] = [base |-> Min(bases), size |-> Max(ends) - Min(bases)]
  BY <1>8, <1>9
<1>11. ASSUME NEW s \in found, NEW x \in s[1] .. s[1] + s[2] - 1
       PROVE  Covers(Span, x)
  <2>1. s[1] \in bases /\ s[1] + s[2] \in ends
    OBVIOUS
  <2>2. s[1] \in Nat /\ s[2] \in Nat
    BY <1>1, <1>2
  <2>3. Min(bases) <= s[1] /\ s[1] + s[2] <= Max(ends)
    BY <1>5, <1>6, <1>7, <2>1, <2>2
  <2>4. Span[1].base = Min(bases) /\ Span[1].size = Max(ends) - Min(bases)
    BY <1>10
  <2> HIDE DEF bases, ends
  <2>5. Min(bases) <= x /\ x < Min(bases) + (Max(ends) - Min(bases))
    BY <1>7, <1>11, <2>2, <2>3
  <2> QED
    BY <1>10, <2>4, <2>5 DEF Covers
<1> QED
  BY <1>10, <1>11

(* The walk: a section of a GOT's name replaces the one found before. *)
LEMMA WalkStep ==
    ASSUME ElfType, WalkInv, NEW s \in Header, parser # "read_header",
           table' = Append(table, s),
           got_sections' = IF s.name \in GotName
                           THEN [got_sections EXCEPT ![s.name] = <<s.addr, s.size>>]
                           ELSE got_sections,
           parser' = parser
    PROVE  /\ table' \in Seq(Header)
           /\ got_sections' \in [GotName -> {<<>>} \cup (Nat \X Nat)]
           /\ WalkInv'
<1>1. /\ s.addr \in Nat /\ s.size \in Nat /\ <<s.addr, s.size>> \in Nat \X Nat
      /\ table \in Seq(Header)
      /\ got_sections \in [GotName -> {<<>>} \cup (Nat \X Nat)]
  BY DEF Header, ElfType
<1>2. got_sections' \in [GotName -> {<<>>} \cup (Nat \X Nat)]
  BY <1>1
<1>3. /\ Len(table) \in Nat
      /\ table' \in Seq(Header) /\ Len(table') = Len(table) + 1
      /\ \A i \in 1 .. Len(table) : i \in 1 .. Len(table') /\ table'[i] = table[i]
      /\ Len(table) + 1 \in 1 .. Len(table') /\ table'[Len(table) + 1] = s
      /\ \A i \in 1 .. Len(table') : i \in 1 .. Len(table) \/ i = Len(table) + 1
  BY <1>1, AppendFacts
<1>4. ASSUME NEW j \in 1 .. Len(table'), Counts(j)'
      PROVE  got_sections'[table'[j].name] = <<table'[j].addr, table'[j].size>>
  <2>1. table'[j].name \in GotName
    BY <1>4 DEF Counts
  <2>2. CASE j = Len(table) + 1
    BY <1>1, <1>3, <2>1, <2>2
  <2>3. CASE j \in 1 .. Len(table)
    <3>1. /\ Len(table) + 1 \in j + 1 .. Len(table')
          /\ \A k \in j + 1 .. Len(table) : k \in j + 1 .. Len(table') /\ k \in 1 .. Len(table)
      BY <1>3, <2>3
    <3>2. s.name # table[j].name
      BY <1>3, <1>4, <2>3, <3>1 DEF Counts
    <3>3. Counts(j)
      BY <1>3, <1>4, <2>3, <3>1 DEF Counts
    <3>4. got_sections[table[j].name] = <<table[j].addr, table[j].size>>
      BY <2>3, <3>3 DEF WalkInv
    <3>5. got_sections'[table[j].name] = got_sections[table[j].name]
      BY <1>1, <1>3, <2>1, <2>3, <3>2
    <3> QED
      BY <1>3, <2>3, <3>4, <3>5
  <2> QED
    BY <1>3, <2>2, <2>3
<1> QED
  BY <1>2, <1>3, <1>4 DEF WalkInv

(* get_got_range: base and size out of what was found. *)
LEMMA RangeCovers ==
    ASSUME ElfType, WalkInv
    PROVE  LET range == IF found = {} THEN <<>> ELSE Span
           IN  /\ range \in Seq(GotRange)
               /\ \A j \in 1 .. Len(table) : Counts(j) =>
                     \A x \in table[j].addr .. table[j].addr + table[j].size - 1 : Covers(range, x)
<1> DEFINE range == IF found = {} THEN <<>> ELSE Span
<1>1. got_sections \in [GotName -> {<<>>} \cup (Nat \X Nat)]
  BY DEF ElfType
<1>2. range \in Seq(GotRange)
  BY <1>1, SpanCovers, EmptySeq
<1>3. ASSUME NEW j \in 1 .. Len(table), Counts(j),
             NEW x \in table[j].addr .. table[j].addr + table[j].size - 1
      PROVE  Covers(range, x)
  <2> DEFINE s == <<table[j].addr, table[j].size>>
  <2>1. got_sections[table[j].name] = s /\ table[j].name \in GotName /\ s # <<>>
    BY <1>3 DEF WalkInv, Counts
  <2>2. s \in found
    BY <2>1 DEF found
  <2>3. s[1] = table[j].addr /\ s[2] = table[j].size
    OBVIOUS
  <2> HIDE DEF s
  <2> QED
    BY <1>1, <1>3, <2>2, <2>3, SpanCovers
<1> QED
  BY <1>2, <1>3

LEMMA ElfNextInv ==
    ASSUME DpiInv, ElfNext
    PROVE  ElfType' /\ WalkInv' /\ ResultInv' /\ parser # "dropped" /\ parser' # "dropped"
<1>1. ElfType /\ WalkInv /\ ResultInv
  BY DEF DpiInv
<1>2. CASE read_elf_header \/ cross_check_header \/ read_string_table \/ parse_gotverify \/ call_again
  <2>1. UNCHANGED <<table, got_sections, results>>
    BY <1>2 DEF read_elf_header, cross_check_header, read_string_table, parse_gotverify, call_again
  <2>2. /\ parser' \in {"cross_check", "string_table", "walk", "verify", "parsed", "raised", "exited"}
        /\ parser # "dropped"
    BY <1>2 DEF read_elf_header, cross_check_header, read_string_table, parse_gotverify, call_again
  <2>3. \A j : Counts(j)' <=> Counts(j)
    BY <2>1 DEF Counts
  <2>4. ElfType'
    BY <1>1, <2>1, <2>2 DEF ElfType
  <2>5. WalkInv'
    BY <1>1, <2>1, <2>2, <2>3 DEF WalkInv
  <2>6. ResultInv'
    BY <2>2 DEF ResultInv
  <2> QED
    BY <2>2, <2>4, <2>5, <2>6
<1>3. CASE walk_got_section
  <2>1. parser = "walk" /\ UNCHANGED results
    BY <1>3 DEF walk_got_section
  <2>2. ASSUME NEW s \in Section,
               table' = Append(table, s),
               got_sections' = IF s.name \in GotName
                               THEN [got_sections EXCEPT ![s.name] = <<s.addr, s.size>>]
                               ELSE got_sections,
               UNCHANGED parser
        PROVE  ElfType' /\ WalkInv' /\ ResultInv' /\ parser' # "dropped"
    <3>1. s \in Header
      BY DpiAssumption DEF Section, Header
    <3>2. /\ table' \in Seq(Header)
          /\ got_sections' \in [GotName -> {<<>>} \cup (Nat \X Nat)]
          /\ WalkInv'
      BY <1>1, <2>1, <2>2, <3>1, WalkStep
    <3> QED
      BY <1>1, <2>1, <2>2, <3>2 DEF ElfType, ResultInv
  <2>3. ASSUME parser' = "verify", UNCHANGED <<table, got_sections>>
        PROVE  ElfType' /\ WalkInv' /\ ResultInv' /\ parser' # "dropped"
    <3>1. \A j : Counts(j)' <=> Counts(j)
      BY <2>3 DEF Counts
    <3> QED
      BY <1>1, <2>1, <2>3, <3>1 DEF ElfType, WalkInv, ResultInv
  <2> QED
    BY <1>3, <2>1, <2>2, <2>3 DEF walk_got_section
<1>4. CASE get_got_range
  <2> DEFINE range == IF found = {} THEN <<>> ELSE Span
  <2>1. /\ parser = "parsed" /\ parser' = "returned"
        /\ results' = Append(results, range)
        /\ UNCHANGED <<table, got_sections>>
    BY <1>4 DEF get_got_range
  <2>2. /\ range \in Seq(GotRange)
        /\ \A j \in 1 .. Len(table) : Counts(j) =>
              \A x \in table[j].addr .. table[j].addr + table[j].size - 1 : Covers(range, x)
    BY <1>1, RangeCovers
  <2> HIDE DEF range
  <2>3. /\ results' \in Seq(Seq(GotRange)) /\ Len(results) \in Nat
        /\ Len(results') = Len(results) + 1 /\ results'[Len(results) + 1] = range
    BY <1>1, <2>1, <2>2, AppendFacts DEF ElfType
  <2>4. \A j : Counts(j)' <=> Counts(j)
    BY <2>1 DEF Counts
  <2>5. ElfType' /\ WalkInv'
    BY <1>1, <2>1, <2>3, <2>4 DEF ElfType, WalkInv
  <2>6. Len(results') >= 1 /\ results'[Len(results')] = range
    BY <2>3
  <2>7. ResultInv'
    BY <2>1, <2>2, <2>4, <2>6 DEF ResultInv, Covers
  <2> QED
    BY <2>1, <2>5, <2>7
<1> QED
  BY <1>2, <1>3, <1>4 DEF ElfNext

-----------------------------------------------------------------------------
(* Payload inspection as a whole. *)

LEMMA DpiInitInv == Init => DpiInv
<1> SUFFICES ASSUME Init PROVE DpiInv
  OBVIOUS
<1>1. /\ Len(<<>>) = 0 /\ \A S : <<>> \in Seq(S)
      /\ \A i : i \notin 1 .. Len(<<>>) /\ i \notin DOMAIN <<>>
  BY EmptySeq, EmptySequence
<1>2. ScanInv
  <2>1. ScanType
    BY <1>1 DEF Init, ScanInit, ScanType
  <2>2. Passed("sleds") = 0 /\ \A i : i \notin 0 .. 0 - 1
    BY <1>1 DEF Init, ScanInit, Passed
  <2>3. SledInv
    BY <1>1, <2>2 DEF Init, ScanInit, SledInv, SledsCovered
  <2>4. RunInv /\ PointerInv
    BY <1>1 DEF Init, ScanInit, RunInv, PointerInv
  <2> QED
    BY <2>1, <2>3, <2>4 DEF ScanInv
<1>3. ElfType /\ WalkInv /\ ResultInv
  BY <1>1 DEF Init, ElfInit, ElfType, WalkInv, ResultInv
<1>4. GotInv
  BY DEF Init, ScanInit, ElfInit, GotInv
<1> QED
  BY <1>2, <1>3, <1>4 DEF DpiInv

LEMMA ScanInvKept == ScanInv /\ UNCHANGED scanVars => ScanInv'
<1> SUFFICES ASSUME ScanInv, UNCHANGED scanVars PROVE ScanInv'
  OBVIOUS
<1>1. UNCHANGED <<payload, got, scan, start, sleds, runs, pointers>>
  BY DEF scanVars
<1>2. \A i : IsPointer(i)' <=> IsPointer(i)
  BY <1>1, PointerSame
<1>3. ScanType' /\ SledInv' /\ RunInv'
  BY <1>1 DEF ScanInv, ScanType, SledInv, SledsCovered, Passed, IsSled, RunInv, MaximalRun,
              Same, At, Reported
<1>4. PointerInv'
  BY <1>1, <1>2 DEF ScanInv, PointerInv, Listed
<1> QED
  BY <1>3, <1>4 DEF ScanInv

LEMMA ElfInvKept ==
    ElfType /\ WalkInv /\ ResultInv /\ UNCHANGED elfVars => ElfType' /\ WalkInv' /\ ResultInv'
BY DEF elfVars, ElfType, WalkInv, ResultInv, Counts, Covers

LEMMA ParseInv == DpiInv /\ parse => DpiInv'
<1> SUFFICES ASSUME DpiInv, parse PROVE DpiInv'
  OBVIOUS
<1>1. ElfNext /\ UNCHANGED scanVars /\ gotBytes' = gotBytes
  BY DEF parse
<1>2. ElfType' /\ WalkInv' /\ ResultInv' /\ parser # "dropped" /\ parser' # "dropped"
  BY <1>1, ElfNextInv
<1>3. ScanInv'
  BY <1>1, ScanInvKept DEF DpiInv
<1>4. GotInv'
  BY <1>1, <1>2 DEF DpiInv, GotInv, scanVars
<1> QED
  BY <1>2, <1>3, <1>4 DEF DpiInv

LEMMA MainInv == DpiInv /\ main => DpiInv'
<1> SUFFICES ASSUME DpiInv, main PROVE DpiInv'
  OBVIOUS
<1>1. /\ parser \in {"read_header", "returned"}
      /\ parser' = "dropped" /\ table' = <<>> /\ results' = <<>>
      /\ got_sections' = [name \in GotName |-> <<>>]
      /\ UNCHANGED <<scan, payload, start, sleds, runs, pointers>>
  BY DEF main
<1>2. scan = "uncalled"
  BY <1>1 DEF DpiInv, GotInv
<1>3. /\ Len(<<>>) = 0 /\ \A S : <<>> \in Seq(S)
      /\ \A i : i \notin 1 .. Len(<<>>) /\ i \notin DOMAIN <<>>
  BY EmptySeq, EmptySequence
<1>4. ElfType' /\ WalkInv' /\ ResultInv'
  BY <1>1, <1>3 DEF ElfType, WalkInv, ResultInv
<1>5. table \in Seq(Header) /\ DOMAIN table = 1 .. Len(table)
  BY LenProperties DEF DpiInv, ElfType
<1>6. \A x : x \in gotBytes' <=> \E j \in 1 .. Len(table) :
                /\ Counts(j)
                /\ x \in table[j].addr .. table[j].addr + table[j].size - 1
  BY <1>5 DEF main
<1>7. gotBytes' \subseteq Int
  <2>1. \A j \in 1 .. Len(table) : table[j] \in Header
    BY <1>5, ElementOfSeq
  <2>2. \A j \in 1 .. Len(table) : table[j].addr \in Nat /\ table[j].size \in Nat
    BY <2>1 DEF Header
  <2> QED
    BY <1>6, <2>2
<1>8. got' \in Seq(GotRange) /\ \A x \in gotBytes' : Covers(got', x)
  <2>1. CASE parser = "read_header"
    <3>1. got' = <<>> /\ table = <<>>
      BY <2>1 DEF main, DpiInv, WalkInv
    <3> QED
      BY <1>3, <1>6, <3>1
  <2>2. CASE parser = "returned"
    <3>1. got' = results[Len(results)]
      BY <2>2 DEF main
    <3>2. results[Len(results)] \in Seq(GotRange)
      <4>1. results \in Seq(Seq(GotRange)) /\ Len(results) >= 1
        BY <2>2 DEF DpiInv, ElfType, ResultInv
      <4>2. Len(results) \in 1 .. Len(results)
        BY <4>1, LenProperties
      <4> QED
        BY <4>1, <4>2, ElementOfSeq
    <3>3. \A x \in gotBytes' : Covers(results[Len(results)], x)
      BY <1>6, <2>2 DEF DpiInv, ResultInv
    <3> QED
      BY <3>1, <3>2, <3>3
  <2> QED
    BY <1>1, <2>1, <2>2
<1>9. GotInv'
  BY <1>1, <1>7, <1>8 DEF GotInv, Covers
<1>10. ScanInv'
  <2>1. ScanType'
    BY <1>1, <1>8 DEF DpiInv, ScanInv, ScanType, GotRange
  <2>2. SledInv' /\ RunInv'
    <3>1. SledInv /\ RunInv
      BY DEF DpiInv, ScanInv
    <3>2. SledInv'
      BY <1>1, <3>1 DEF SledInv, SledsCovered, Passed, IsSled, Same, At
    <3>3. RunInv'
      <4>1. UNCHANGED <<scan, start, payload, runs>>
        BY <1>1
      <4>2. \A i, n : MaximalRun(i, n)' <=> MaximalRun(i, n)
        BY <4>1, Zenon DEF MaximalRun, Same, At
      <4>3. \A i, n : Reported(i, n)' <=> Reported(i, n)
        BY <4>1, Zenon DEF Reported
      <4>4. \A i : At(i)' = At(i)
        BY <4>1, Zenon DEF At
      <4> QED
        BY <3>1, <4>1, <4>2, <4>3, <4>4 DEF RunInv
    <3> QED
      BY <3>2, <3>3
  <2>3. PointerInv'
    BY <1>1, <1>2 DEF DpiInv, ScanInv, PointerInv
  <2> QED
    BY <2>1, <2>2, <2>3 DEF ScanInv
<1> QED
  BY <1>4, <1>9, <1>10 DEF DpiInv

LEMMA LogPacketInv == DpiInv /\ log_packet => DpiInv'
<1> SUFFICES ASSUME DpiInv, log_packet PROVE DpiInv'
  OBVIOUS
<1>1. PICK bytes \in UNION {[1 .. n -> 0 .. BYTE - 1] : n \in 0 .. MaxLen} : scan_payload(bytes, got)
  BY DEF log_packet
<1>2. PICK n \in 0 .. MaxLen : bytes \in [1 .. n -> 0 .. BYTE - 1]
  BY <1>1
<1>3. n \in Nat
  BY <1>2
<1>4. bytes \in Seq(0 .. BYTE - 1)
  BY <1>2, <1>3, SeqDef
<1>5. ScanInv'
  BY <1>1, <1>4, ScanPayloadInv DEF DpiInv
<1>6. parser = "dropped" /\ UNCHANGED <<elfVars, gotBytes>> /\ got' = got
  BY <1>1 DEF log_packet, scan_payload
<1>7. ElfType' /\ WalkInv' /\ ResultInv'
  BY <1>6, ElfInvKept DEF DpiInv
<1>8. GotInv'
  BY <1>6 DEF DpiInv, GotInv, elfVars, Covers
<1> QED
  BY <1>5, <1>7, <1>8 DEF DpiInv

LEMMA ScanStepInv == DpiInv /\ scan_step => DpiInv'
<1> SUFFICES ASSUME DpiInv, scan_step PROVE DpiInv'
  OBVIOUS
<1>1. ScanInv'
  BY FindSledInv, FindRunInv, CheckWordInv DEF scan_step, ScanStep, DpiInv
<1>2. UNCHANGED <<elfVars, gotBytes>> /\ got' = got /\ scan # "uncalled"
  BY DEF scan_step, ScanStep, FindSled, FindRun, CheckWord
<1>3. ElfType' /\ WalkInv' /\ ResultInv'
  BY <1>2, ElfInvKept DEF DpiInv
<1>4. GotInv'
  BY <1>2 DEF DpiInv, GotInv, elfVars, Covers
<1> QED
  BY <1>1, <1>3, <1>4 DEF DpiInv

LEMMA DpiInvKept == DpiInv /\ UNCHANGED vars => DpiInv'
<1> SUFFICES ASSUME DpiInv, UNCHANGED vars PROVE DpiInv'
  OBVIOUS
<1>1. UNCHANGED elfVars /\ UNCHANGED scanVars /\ UNCHANGED gotBytes
  BY DEF vars
<1>2. ElfType' /\ WalkInv' /\ ResultInv' /\ ScanInv'
  BY <1>1, ElfInvKept, ScanInvKept DEF DpiInv
<1>3. GotInv'
  BY <1>1 DEF DpiInv, GotInv, elfVars, scanVars, Covers
<1> QED
  BY <1>2, <1>3 DEF DpiInv

LEMMA DpiNextInv == DpiInv /\ [Next]_vars => DpiInv'
BY ParseInv, MainInv, LogPacketInv, ScanStepInv, DpiInvKept DEF Next

(* A pointer into the GOT lies in the range that covers it. *)
LEMMA DpiGotPointers == DpiInv => GotPointersFound
<1> SUFFICES ASSUME DpiInv, scan = "done", NEW i \in 0 .. Len(payload) - WORD,
                    Value(i) \in gotBytes \ {0}
             PROVE  \E k \in DOMAIN pointers : pointers[k] = i
  BY DEF GotPointersFound
<1>1. DOMAIN pointers = 1 .. Len(pointers) /\ Len(payload) \in Nat
  BY LenProperties DEF DpiInv, ScanInv, ScanType
<1>2. i \in Nat /\ i <= LastOffset
  BY <1>1, Numbers DEF LastOffset
<1>3. Covers(got, Value(i))
  BY DEF DpiInv, GotInv
<1>4. IsPointer(i)
  BY <1>2, <1>3 DEF IsPointer, IsCandidate, Covers
<1>5. Listed(i)
  BY <1>2, <1>4 DEF DpiInv, ScanInv, PointerInv
<1> QED
  BY <1>1, <1>5 DEF Listed

-----------------------------------------------------------------------------
(* The inductive invariant of analyze_file. *)

Kind == {"append", "overwrite", "truncate", "rename", "unlink"}

IocType ==
    /\ files \in Seq(Seq(Byte))
    /\ path \in 0 .. Len(files) /\ fd \in 0 .. Len(files) /\ hashedFd \in 0 .. Len(files)
    /\ hashed \in Seq(Byte) /\ data \in Seq(Byte)
    /\ changes \in Seq(Kind)
    /\ reader \in {"open_hash", "hash", "open_data", "read", "done", "raised"}
    /\ reader = "open_hash" => hashed = <<>>
    /\ reader \in {"hash", "read", "done"} => fd # 0
    /\ reader \in {"hash", "open_data", "read", "done"} => hashedFd # 0
    /\ reader = "hash" => fd = hashedFd

(* The path names the newest file, if any; while nobody renames or unlinks *)
(* it, it is the only one.                                                 *)
PathInv ==
    /\ path # 0 => path = Len(files)
    /\ Ioc!Only({"append"}) => Len(files) = 1 /\ path = 1

Prefix(h, t) == Len(h) <= Len(t) /\ \A i \in 1 .. Len(h) : h[i] = t[i]

(* Files that are only replaced: what was hashed is the beginning of one   *)
(* version, and all of it once the loop is over.                           *)
VersionInv ==
    Ioc!Only({"rename", "unlink"}) =>
        /\ reader = "hash" => Prefix(hashed, files[hashedFd])
        /\ reader \in {"open_data", "read", "done"} => hashed = files[hashedFd]
        /\ reader \in {"read", "done"} => hashedFd <= fd
        /\ reader = "done" => data = files[fd]

(* A file that only grows: what was hashed stays its beginning. *)
GrowInv ==
    Ioc!Only({"append"}) =>
        /\ reader \in {"hash", "open_data", "read"} => Prefix(hashed, files[1])
        /\ reader = "done" => Prefix(hashed, data)

AnswerInv == reader = "done" => (result[1].is_known_ioc <=> hashed \in IocHashes)

IocInv ==
    /\ IocType
    /\ PathInv
    /\ VersionInv
    /\ GrowInv
    /\ AnswerInv

(* f.read(chunk_size) at the end of what was read before. *)
LEMMA ChunkExtends ==
    ASSUME NEW t \in Seq(Byte), NEW h \in Seq(Byte), NEW c,
           c = SubSeq(t, Len(h) + 1, IF Len(h) + CHUNK <= Len(t) THEN Len(h) + CHUNK ELSE Len(t))
    PROVE  /\ c \in Seq(Byte) /\ h \o c \in Seq(Byte)
           /\ Prefix(h, t) /\ c = <<>> => h = t
           /\ Prefix(h, t) => Prefix(h \o c, t)
<1> DEFINE m == Len(h) + 1
           n == IF Len(h) + CHUNK <= Len(t) THEN Len(h) + CHUNK ELSE Len(t)
<1>1. Len(t) \in Nat /\ Len(h) \in Nat /\ CHUNK \in Nat /\ CHUNK >= 1
  BY LenProperties, PartsAssumption
<1>2. /\ m \in Int /\ n \in Int /\ m = Len(h) + 1 /\ m >= 1 /\ n <= Len(t)
      /\ n < m => Len(t) <= Len(h)
  BY <1>1
<1>3. c = SubSeq(t, m, n)
  OBVIOUS
<1> HIDE DEF m, n
<1>4. \A i \in m .. n : t[i] \in Byte
  <2>1. \A i \in m .. n : i \in 1 .. Len(t)
    BY <1>1, <1>2
  <2> QED
    BY <2>1, ElementOfSeq
<1>5. /\ SubSeq(t, m, n) \in Seq(Byte)
      /\ Len(SubSeq(t, m, n)) = IF m <= n THEN n - m + 1 ELSE 0
      /\ \A i \in 1 .. n - m + 1 : SubSeq(t, m, n)[i] = t[m + i - 1]
  BY <1>2, <1>4, SubSeqProperties
<1>6. /\ c \in Seq(Byte)
      /\ Len(c) = IF m <= n THEN n - m + 1 ELSE 0
      /\ \A i \in 1 .. n - m + 1 : c[i] = t[m + i - 1]
  BY <1>3, <1>5
<1>7. /\ h \o c \in Seq(Byte)
      /\ Len(h \o c) = Len(h) + Len(c)
      /\ \A i \in 1 .. Len(h) + Len(c) : (h \o c)[i] = IF i <= Len(h) THEN h[i] ELSE c[i - Len(h)]
  BY <1>6, ConcatProperties
<1>8. ASSUME Prefix(h, t), c = <<>>
      PROVE  h = t
  <2>1. Len(c) = 0
    BY <1>8, EmptySeq
  <2>2. n < m
    BY <1>2, <1>6, <2>1
  <2>3. Len(h) = Len(t)
    BY <1>1, <1>2, <1>8, <2>2 DEF Prefix
  <2> QED
    BY <1>8, <2>3, SeqEqual DEF Prefix
<1>9. ASSUME Prefix(h, t)
      PROVE  Prefix(h \o c, t)
  <2>1. Len(c) \in Nat /\ Len(h) + Len(c) <= Len(t)
    BY <1>1, <1>2, <1>6, <1>9 DEF Prefix
  <2>2. ASSUME NEW i \in 1 .. Len(h) + Len(c)
        PROVE  (h \o c)[i] = t[i]
    <3>1. CASE i <= Len(h)
      <4>1. i \in 1 .. Len(h)
        BY <1>1, <2>1, <3>1
      <4> QED
        BY <1>7, <1>9, <3>1, <4>1 DEF Prefix
    <3>2. CASE ~ (i <= Len(h))
      <4>1. i - Len(h) \in 1 .. n - m + 1 /\ m + (i - Len(h)) - 1 = i
        BY <1>1, <1>2, <1>6, <2>1, <3>2
      <4> QED
        BY <1>6, <1>7, <3>2, <4>1
    <3> QED
      BY <3>1, <3>2
  <2> QED
    BY <1>7, <2>1, <2>2 DEF Prefix
<1> QED
  BY <1>6, <1>7, <1>8, <1>9

LEMMA PrefixOfNothing == ASSUME NEW t \in Seq(Byte) PROVE Prefix(<<>>, t)
<1>1. Len(t) \in Nat
  BY LenProperties
<1> QED
  BY <1>1, EmptySequence DEF Prefix

LEMMA ContentIsSeq == Ioc!Content \subseteq Seq(Byte)
<1> SUFFICES ASSUME NEW c \in Ioc!Content PROVE c \in Seq(Byte)
  OBVIOUS
<1>1. PICK n \in 0 .. MaxFileLen : c \in [1 .. n -> Byte]
  BY DEF Ioc!Content
<1>2. n \in Nat
  BY <1>1
<1> QED
  BY <1>1, <1>2, SeqDef

LEMMA IocInitInv == Ioc!Init => IocInv
<1> SUFFICES ASSUME Ioc!Init PROVE IocInv
  OBVIOUS
<1>1. PICK c \in Ioc!Content : files = <<c>>
  BY DEF Ioc!Init
<1>2. c \in Seq(Byte)
  BY ContentIsSeq
<1>3. files \in Seq(Seq(Byte)) /\ Len(files) = 1
  BY <1>1, <1>2
<1>4. \A S : <<>> \in Seq(S)
  BY EmptySeq
<1>5. IocType
  BY <1>3, <1>4 DEF Ioc!Init, IocType
<1> QED
  BY <1>3, <1>5 DEF Ioc!Init, IocInv, PathInv, VersionInv, GrowInv, AnswerInv

(* The steps of analyze_file. *)

LEMMA OpenInv == IocInv /\ Ioc!open => IocInv'
<1> SUFFICES ASSUME IocInv, Ioc!open PROVE IocInv'
  OBVIOUS
<1>1. /\ reader \in {"open_hash", "open_data"}
      /\ UNCHANGED <<files, path, hashed, data, result, changes>>
      /\ files \in Seq(Seq(Byte)) /\ Len(files) \in Nat
      /\ path \in 0 .. Len(files) /\ hashedFd \in 0 .. Len(files)
  BY LenProperties DEF Ioc!open, IocInv, IocType
<1>2. \A K : Ioc!Only(K)' <=> Ioc!Only(K)
  BY <1>1 DEF Ioc!Only
<1>3. CASE path = 0
  <2>1. reader' = "raised" /\ UNCHANGED <<fd, hashedFd>>
    BY <1>3 DEF Ioc!open
  <2> QED
    BY <1>1, <1>2, <2>1 DEF IocInv, IocType, PathInv, VersionInv, GrowInv, AnswerInv
<1>4. CASE path # 0
  <2>1. /\ reader' = IF reader = "open_hash" THEN "hash" ELSE "read"
        /\ fd' = path
        /\ hashedFd' = IF reader = "open_hash" THEN path ELSE hashedFd
    BY <1>4 DEF Ioc!open
  <2>2. path = Len(files) /\ path \in 1 .. Len(files)
    BY <1>1, <1>4 DEF IocInv, PathInv
  <2>3. files[path] \in Seq(Byte)
    BY <1>1, <2>2, ElementOfSeq
  <2>4. IocType' /\ PathInv' /\ AnswerInv'
    BY <1>1, <1>2, <1>4, <2>1 DEF IocInv, IocType, PathInv, AnswerInv
  <2>5. CASE reader = "open_hash"
    <3>1. hashed = <<>> /\ Prefix(hashed, files[path])
      BY <2>3, <2>5, PrefixOfNothing DEF IocInv, IocType
    <3>2. VersionInv'
      BY <1>1, <2>1, <2>5, <3>1 DEF VersionInv
    <3>3. GrowInv'
      BY <1>1, <1>2, <2>1, <2>5, <3>1 DEF GrowInv, IocInv, PathInv
    <3> QED
      BY <2>4, <3>2, <3>3 DEF IocInv
  <2>6. CASE reader = "open_data"
    <3>1. reader' = "read" /\ hashedFd' = hashedFd /\ hashedFd <= fd'
      BY <1>1, <2>1, <2>2, <2>6
    <3>2. VersionInv'
      BY <1>1, <1>2, <2>6, <3>1 DEF VersionInv, IocInv
    <3>3. GrowInv'
      BY <1>1, <1>2, <2>6, <3>1 DEF GrowInv, IocInv
    <3> QED
      BY <2>4, <3>2, <3>3 DEF IocInv
  <2> QED
    BY <1>1, <2>5, <2>6
<1> QED
  BY <1>3, <1>4

LEMMA HashInv == IocInv /\ Ioc!sha256_of_file => IocInv'
<1> SUFFICES ASSUME IocInv, Ioc!sha256_of_file PROVE IocInv'
  OBVIOUS
<1>1. /\ reader = "hash" /\ fd = hashedFd /\ fd # 0
      /\ UNCHANGED <<files, path, fd, data, result, changes, hashedFd>>
      /\ files \in Seq(Seq(Byte)) /\ Len(files) \in Nat /\ hashed \in Seq(Byte)
      /\ fd \in 0 .. Len(files)
  BY LenProperties DEF Ioc!sha256_of_file, IocInv, IocType
<1>2. \A K : Ioc!Only(K)' <=> Ioc!Only(K)
  BY <1>1 DEF Ioc!Only
<1> DEFINE t == files[fd]
           c == Ioc!Chunk
<1>3. fd \in 1 .. Len(files)
  BY <1>1
<1>4. t \in Seq(Byte)
  BY <1>1, <1>3, ElementOfSeq
<1>5. c = SubSeq(t, Len(hashed) + 1,
                 IF Len(hashed) + CHUNK <= Len(t) THEN Len(hashed) + CHUNK ELSE Len(t))
  BY DEF Ioc!Chunk, Ioc!Source
<1>6. IF c = <<>> THEN reader' = "open_data" /\ UNCHANGED hashed
                  ELSE hashed' = hashed \o c /\ UNCHANGED reader
  BY DEF Ioc!sha256_of_file
<1>7. Ioc!Only({"append"}) => fd = 1
  <2>1. Len(files) = 1 => fd = 1
    BY <1>1
  <2> QED
    BY <2>1 DEF IocInv, PathInv
<1> HIDE DEF c
<1>8. /\ c \in Seq(Byte) /\ hashed \o c \in Seq(Byte)
      /\ Prefix(hashed, t) /\ c = <<>> => hashed = t
      /\ Prefix(hashed, t) => Prefix(hashed \o c, t)
  <2> HIDE DEF t
  <2> QED
    BY <1>1, <1>4, <1>5, ChunkExtends
<1>9. /\ Ioc!Only({"rename", "unlink"}) => Prefix(hashed, t)
      /\ Ioc!Only({"append"}) => Prefix(hashed, t)
  BY <1>1, <1>7 DEF IocInv, VersionInv, GrowInv
<1>10. IocType'
  BY <1>1, <1>6, <1>8 DEF IocInv, IocType
<1>11. PathInv' /\ AnswerInv'
  BY <1>1, <1>2, <1>6 DEF IocInv, PathInv, AnswerInv
<1>12. VersionInv'
  BY <1>1, <1>2, <1>6, <1>8, <1>9 DEF VersionInv
<1>13. GrowInv'
  BY <1>1, <1>2, <1>6, <1>7, <1>8, <1>9 DEF GrowInv
<1> QED
  BY <1>10, <1>11, <1>12, <1>13 DEF IocInv

LEMMA AnalyzeInv == IocInv /\ Ioc!analyze_file => IocInv'
<1> SUFFICES ASSUME IocInv, Ioc!analyze_file PROVE IocInv'
  OBVIOUS
<1>1. /\ reader = "read" /\ reader' = "done" /\ data' = files[fd]
      /\ result' = <<[is_known_ioc |-> hashed \in IocHashes,
                      high_entropy |-> data' \in HighEntropy]>>
      /\ UNCHANGED <<files, path, fd, hashed, changes, hashedFd>>
      /\ files \in Seq(Seq(Byte)) /\ Len(files) \in Nat
      /\ fd \in 0 .. Len(files) /\ fd # 0
  BY LenProperties DEF Ioc!analyze_file, Ioc!Source, IocInv, IocType
<1>2. \A K : Ioc!Only(K)' <=> Ioc!Only(K)
  BY <1>1 DEF Ioc!Only
<1>3. fd \in 1 .. Len(files)
  BY <1>1
<1>4. data' \in Seq(Byte)
  BY <1>1, <1>3, ElementOfSeq
<1>5. IocType' /\ PathInv'
  BY <1>1, <1>2, <1>4 DEF IocInv, IocType, PathInv
<1>6. AnswerInv'
  <2>1. result'[1].is_known_ioc = (hashed \in IocHashes)
    BY <1>1
  <2> QED
    BY <1>1, <2>1 DEF AnswerInv
<1>7. VersionInv'
  BY <1>1, <1>2 DEF IocInv, VersionInv
<1>8. GrowInv'
  <2>1. Len(files) = 1 => fd = 1
    BY <1>1
  <2>2. Ioc!Only({"append"}) => fd = 1
    BY <2>1 DEF IocInv, PathInv
  <2> QED
    BY <1>1, <1>2, <2>2 DEF IocInv, GrowInv
<1> QED
  BY <1>5, <1>6, <1>7, <1>8 DEF IocInv

(* The steps of the others. *)

LEMMA ChangeOnly ==
    ASSUME IocInv, NEW kind \in Kind, Ioc!Change(kind)
    PROVE  /\ \A K : Ioc!Only(K)' <=> Ioc!Only(K) /\ kind \in K
           /\ changes' \in Seq(Kind)
           /\ UNCHANGED <<reader, fd, hashed, data, result, hashedFd>>
           /\ reader \notin {"done", "raised"}
<1>1. /\ changes' = Append(changes, kind) /\ changes \in Seq(Kind)
      /\ UNCHANGED <<reader, fd, hashed, data, result, hashedFd>>
      /\ reader \notin {"done", "raised"}
  BY DEF Ioc!Change, IocInv, IocType
<1>2. /\ changes' \in Seq(Kind)
      /\ \A i \in 1 .. Len(changes) : i \in 1 .. Len(changes') /\ changes'[i] = changes[i]
      /\ Len(changes) + 1 \in 1 .. Len(changes') /\ changes'[Len(changes) + 1] = kind
      /\ \A i \in 1 .. Len(changes') : i \in 1 .. Len(changes) \/ i = Len(changes) + 1
  BY <1>1, AppendFacts
<1>3. DOMAIN changes = 1 .. Len(changes) /\ DOMAIN changes' = 1 .. Len(changes')
  BY <1>1, <1>2, LenProperties
<1>4. \A K : Ioc!Only(K)' <=> Ioc!Only(K) /\ kind \in K
  BY <1>2, <1>3 DEF Ioc!Only
<1> QED
  BY <1>1, <1>2, <1>4

(* A write in place to the file that the path names. *)
LEMMA WriteInv ==
    ASSUME IocInv, NEW kind \in {"append", "overwrite", "truncate"}, Ioc!Change(kind),
           path # 0, NEW t \in Seq(Byte), files' = [files EXCEPT ![path] = t], UNCHANGED path,
           kind = "append" => \A h : Prefix(h, files[path]) => Prefix(h, t)
    PROVE  IocInv'
<1>1. /\ \A K : Ioc!Only(K)' <=> Ioc!Only(K) /\ kind \in K
      /\ changes' \in Seq(Kind)
      /\ UNCHANGED <<reader, fd, hashed, data, result, hashedFd>>
      /\ reader \notin {"done", "raised"}
  BY ChangeOnly DEF Kind
<1>2. files \in Seq(Seq(Byte)) /\ Len(files) \in Nat /\ path \in 1 .. Len(files)
  BY LenProperties DEF IocInv, IocType
<1>3. /\ files' \in Seq(Seq(Byte)) /\ Len(files') = Len(files)
      /\ files'[path] = t
  BY <1>2, ExceptSeq
<1>4. IocType'
  BY <1>1, <1>3 DEF IocInv, IocType
<1>5. PathInv' /\ AnswerInv'
  BY <1>1, <1>3 DEF IocInv, PathInv, AnswerInv
<1>6. VersionInv'
  <2>1. kind \notin {"rename", "unlink"}
    OBVIOUS
  <2> QED
    BY <1>1, <2>1 DEF VersionInv
<1>7. GrowInv'
  <2>1. ASSUME Ioc!Only({"append"})'
        PROVE  Ioc!Only({"append"}) /\ kind = "append" /\ path = 1
    BY <1>1, <2>1 DEF IocInv, PathInv
  <2>2. ASSUME Ioc!Only({"append"})', reader \in {"hash", "open_data", "read"}
        PROVE  Prefix(hashed, files'[1])
    BY <1>3, <2>1, <2>2 DEF IocInv, GrowInv
  <2> QED
    BY <1>1, <2>2 DEF GrowInv
<1> QED
  BY <1>4, <1>5, <1>6, <1>7 DEF IocInv

LEMMA AppendByteInv == IocInv /\ Ioc!AppendByte => IocInv'
<1> SUFFICES ASSUME IocInv, Ioc!AppendByte PROVE IocInv'
  OBVIOUS
<1>1. /\ Ioc!Change("append") /\ path # 0 /\ UNCHANGED path
      /\ \E b \in Byte : files' = [files EXCEPT ![path] = Append(@, b)]
  BY DEF Ioc!AppendByte
<1>2. PICK b \in Byte : files' = [files EXCEPT ![path] = Append(@, b)]
  BY <1>1
<1>3. path \in 1 .. Len(files) /\ files \in Seq(Seq(Byte))
  BY <1>1, LenProperties DEF IocInv, IocType
<1>4. files[path] \in Seq(Byte)
  BY <1>3, ElementOfSeq
<1> DEFINE q == files[path]
           t == Append(q, b)
<1>5. files' = [files EXCEPT ![path] = t]
  BY <1>2
<1> HIDE DEF q
<1>6. /\ Len(q) \in Nat /\ t \in Seq(Byte) /\ Len(t) = Len(q) + 1
      /\ \A i \in 1 .. Len(q) : t[i] = q[i]
  BY <1>4, AppendFacts DEF q
<1> HIDE DEF t
<1>7. ASSUME NEW h, Prefix(h, q)
      PROVE  Prefix(h, t)
  <2>1. Len(h) <= Len(q) /\ \A i \in 1 .. Len(h) : h[i] = q[i]
    BY <1>7 DEF Prefix
  <2>2. ASSUME NEW i \in 1 .. Len(h)
        PROVE  i \in 1 .. Len(q)
    BY <1>6, <2>1
  <2>3. Len(h) <= Len(t)
    BY <1>6, <2>1
  <2> QED
    BY <1>6, <2>1, <2>2, <2>3 DEF Prefix
<1> QED
  BY <1>1, <1>5, <1>6, <1>7, WriteInv DEF q

LEMMA OverwriteInv == IocInv /\ Ioc!Overwrite => IocInv'
<1> SUFFICES ASSUME IocInv, Ioc!Overwrite PROVE IocInv'
  OBVIOUS
<1>1. /\ Ioc!Change("overwrite") /\ path # 0 /\ UNCHANGED path
      /\ \E i \in DOMAIN files[path], b \in Byte : files' = [files EXCEPT ![path][i] = b]
  BY DEF Ioc!Overwrite
<1>2. PICK i \in DOMAIN files[path], b \in Byte : files' = [files EXCEPT ![path][i] = b]
  BY <1>1
<1>3. path \in 1 .. Len(files) /\ files \in Seq(Seq(Byte))
  BY <1>1, LenProperties DEF IocInv, IocType
<1>4. files[path] \in Seq(Byte) /\ i \in 1 .. Len(files[path])
  BY <1>2, <1>3, ElementOfSeq, LenProperties
<1> DEFINE t == [files[path] EXCEPT ![i] = b]
<1>5. files' = [files EXCEPT ![path] = t]
  BY <1>2
<1>6. t \in Seq(Byte)
  BY <1>4, ExceptSeq
<1> HIDE DEF t
<1> QED
  BY <1>1, <1>5, <1>6, WriteInv

LEMMA TruncateInv == IocInv /\ Ioc!Truncate => IocInv'
<1> SUFFICES ASSUME IocInv, Ioc!Truncate PROVE IocInv'
  OBVIOUS
<1>1. /\ Ioc!Change("truncate") /\ path # 0 /\ UNCHANGED path
      /\ files' = [files EXCEPT ![path] = <<>>]
  BY DEF Ioc!Truncate
<1>2. <<>> \in Seq(Byte)
  BY EmptySeq
<1> QED
  BY <1>1, <1>2, WriteInv

(* The path is given to another file, or to none; open files stay as they are. *)
LEMMA RenameInv == IocInv /\ Ioc!Rename => IocInv'
<1> SUFFICES ASSUME IocInv, Ioc!Rename PROVE IocInv'
  OBVIOUS
<1>1. PICK c \in Ioc!Content : files' = Append(files, c)
  BY DEF Ioc!Rename
<1>2. Ioc!Change("rename") /\ path' = Len(files')
  BY DEF Ioc!Rename
<1>3. /\ \A K : Ioc!Only(K)' <=> Ioc!Only(K) /\ "rename" \in K
      /\ changes' \in Seq(Kind)
      /\ UNCHANGED <<reader, fd, hashed, data, result, hashedFd>>
      /\ reader \notin {"done", "raised"}
  BY <1>2, ChangeOnly DEF Kind
<1>4. c \in Seq(Byte) /\ files \in Seq(Seq(Byte))
  BY ContentIsSeq DEF IocInv, IocType
<1>5. /\ Len(files) \in Nat /\ files' \in Seq(Seq(Byte)) /\ Len(files') = Len(files) + 1
      /\ \A i \in 1 .. Len(files) : files'[i] = files[i]
  BY <1>1, <1>4, AppendFacts
<1>6. /\ fd \in 0 .. Len(files) /\ hashedFd \in 0 .. Len(files)
      /\ fd' \in 0 .. Len(files') /\ hashedFd' \in 0 .. Len(files') /\ path' \in 0 .. Len(files')
  BY <1>2, <1>3, <1>5 DEF IocInv, IocType
<1>7. IocType'
  BY <1>3, <1>5, <1>6 DEF IocInv, IocType
<1>8. "rename" \notin {"append"}
  OBVIOUS
<1>9. PathInv' /\ GrowInv' /\ AnswerInv'
  BY <1>2, <1>3, <1>8 DEF IocInv, PathInv, GrowInv, AnswerInv
<1>10. VersionInv'
  <2>1. /\ hashedFd # 0 => files'[hashedFd] = files[hashedFd]
        /\ fd # 0 => files'[fd] = files[fd]
    BY <1>5, <1>6
  <2> QED
    BY <1>3, <2>1 DEF IocInv, IocType, VersionInv
<1> QED
  BY <1>7, <1>9, <1>10 DEF IocInv

LEMMA UnlinkInv == IocInv /\ Ioc!Unlink => IocInv'
<1> SUFFICES ASSUME IocInv, Ioc!Unlink PROVE IocInv'
  OBVIOUS
<1>1. Ioc!Change("unlink") /\ path' = 0 /\ UNCHANGED files
  BY DEF Ioc!Unlink
<1>2. /\ \A K : Ioc!Only(K)' <=> Ioc!Only(K) /\ "unlink" \in K
      /\ changes' \in Seq(Kind)
      /\ UNCHANGED <<reader, fd, hashed, data, result, hashedFd>>
      /\ reader \notin {"done", "raised"}
  BY <1>1, ChangeOnly DEF Kind
<1>3. path' \in 0 .. Len(files')
  BY <1>1, LenProperties DEF IocInv, IocType
<1>4. IocType'
  BY <1>1, <1>2, <1>3 DEF IocInv, IocType
<1>5. "unlink" \notin {"append"}
  OBVIOUS
<1>6. PathInv' /\ GrowInv' /\ AnswerInv'
  BY <1>1, <1>2, <1>5 DEF IocInv, PathInv, GrowInv, AnswerInv
<1>7. VersionInv'
  BY <1>1, <1>2 DEF IocInv, VersionInv
<1> QED
  BY <1>4, <1>6, <1>7 DEF IocInv

LEMMA IocInvKept == IocInv /\ UNCHANGED iocVars => IocInv'
BY DEF iocVars, IocInv, IocType, PathInv, VersionInv, GrowInv, AnswerInv, Ioc!Only

LEMMA IocNextInv == IocInv /\ Ioc!Next => IocInv'
BY OpenInv, HashInv, AnalyzeInv, AppendByteInv, OverwriteInv, TruncateInv, RenameInv, UnlinkInv
   DEF Ioc!Next

LEMMA PrefixIsPrefix ==
    ASSUME NEW h \in Seq(Byte), NEW t \in Seq(Byte), Prefix(h, t)
    PROVE  Ioc!IsPrefix(h, t)
<1>1. Len(h) \in Nat /\ Len(t) \in Nat /\ Len(h) <= Len(t)
  BY LenProperties DEF Prefix
<1> DEFINE n == Len(h)
           u == SubSeq(h, 1, n)
           v == SubSeq(t, 1, n)
<1>2. 1 \in Int /\ n \in Int
  BY <1>1
<1>3. \A i \in 1 .. n : h[i] \in Byte /\ t[i] \in Byte
  <2>1. \A i \in 1 .. n : i \in 1 .. Len(h) /\ i \in 1 .. Len(t)
    BY <1>1
  <2> QED
    BY <2>1, ElementOfSeq
<1>4. \A i \in 1 .. n : h[i] = t[i]
  BY DEF Prefix
<1>5. n - 1 + 1 = n /\ \A i \in 1 .. n - 1 + 1 : 1 + i - 1 = i
  BY <1>1
<1> HIDE DEF n
<1>6. /\ u \in Seq(Byte) /\ Len(u) = IF 1 <= n THEN n - 1 + 1 ELSE 0
      /\ \A i \in 1 .. n - 1 + 1 : u[i] = h[1 + i - 1]
  BY <1>2, <1>3, SubSeqProperties
<1>7. /\ v \in Seq(Byte) /\ Len(v) = IF 1 <= n THEN n - 1 + 1 ELSE 0
      /\ \A i \in 1 .. n - 1 + 1 : v[i] = t[1 + i - 1]
  BY <1>2, <1>3, SubSeqProperties
<1> HIDE DEF u, v
<1>8. Len(u) = Len(v) /\ \A i \in 1 .. Len(u) : u[i] = v[i]
  <2>1. \A i \in 1 .. Len(u) : i \in 1 .. n
    BY <1>2, <1>6
  <2> QED
    BY <1>4, <1>5, <1>6, <1>7, <2>1
<1>9. u = v
  BY <1>6, <1>7, <1>8, SeqEqual
<1> QED
  BY <1>1, <1>9 DEF Ioc!IsPrefix, u, v, n

LEMMA IocWholeVersions == IocInv => WholeVersions
<1> SUFFICES ASSUME IocInv, reader = "done"
             PROVE  /\ Ioc!Only({"rename", "unlink"}) =>
                         /\ hashed = files[hashedFd]
                         /\ data = files[fd]
                         /\ hashedFd <= fd
                         /\ changes = <<>> => hashed = data
                         /\ result[1].is_known_ioc <=> files[hashedFd] \in IocHashes
                    /\ Ioc!Only({"append"}) => Ioc!IsPrefix(hashed, data)
  BY DEF WholeVersions, Ioc!WholeVersions
<1>1. /\ hashed \in Seq(Byte) /\ data \in Seq(Byte) /\ Len(files) \in Nat
      /\ fd \in 0 .. Len(files) /\ fd # 0 /\ hashedFd \in 0 .. Len(files) /\ hashedFd # 0
  BY LenProperties DEF IocInv, IocType
<1>2. ASSUME Ioc!Only({"append"})
      PROVE  Ioc!IsPrefix(hashed, data)
  BY <1>1, <1>2, PrefixIsPrefix DEF IocInv, GrowInv
<1>3. ASSUME Ioc!Only({"rename", "unlink"})
      PROVE  /\ hashed = files[hashedFd] /\ data = files[fd] /\ hashedFd <= fd
             /\ result[1].is_known_ioc <=> files[hashedFd] \in IocHashes
  BY <1>3 DEF IocInv, VersionInv, AnswerInv
<1>4. ASSUME Ioc!Only({"rename", "unlink"}), changes = <<>>
      PROVE  hashed = data
  <2>1. Ioc!Only({"append"})
    BY <1>4, EmptySequence DEF Ioc!Only
  <2>2. Len(files) = 1
    BY <2>1 DEF IocInv, PathInv
  <2>3. hashedFd = fd
    BY <1>1, <2>2
  <2> QED
    BY <1>3, <1>4, <2>3
<1> QED
  BY <1>2, <1>3, <1>4

-----------------------------------------------------------------------------
(* The results. *)

(* The invariants of both parts hold in every reachable state. *)
THEOREM Invariance == PartsSpec => [](DpiInv /\ IocInv)
<1>1. PartsInit => DpiInv /\ IocInv
  BY DpiInitInv, IocInitInv DEF PartsInit
<1>2. DpiInv /\ IocInv /\ [PartsNext]_<<part, vars, iocVars>> => DpiInv' /\ IocInv'
  BY DpiNextInv, DpiInvKept, IocNextInv, IocInvKept DEF PartsNext
<1> QED
  BY <1>1, <1>2, PTL DEF PartsSpec

(* scan_payload's state keeps its types. *)
THEOREM TypeCorrect == PartsSpec => [](ScanType /\ ElfType /\ IocType)
<1>1. DpiInv /\ IocInv => ScanType /\ ElfType /\ IocType
  BY DEF DpiInv, ScanInv, IocInv
<1> QED
  BY <1>1, Invariance, PTL

(* The loop over payload.find: for any payload and any length of the sled, *)
(* no place with enough NOPs escapes the jumps.                            *)
THEOREM SledsAreCovered == PartsSpec => []SledsCovered
<1>1. DpiInv => SledsCovered
  BY DEF DpiInv, ScanInv, SledInv
<1> QED
  BY <1>1, Invariance, PTL

(* REPEATED_BYTE_RUN.finditer: the matches are exactly the maximal runs. *)
THEOREM RunsAreMaximal == PartsSpec => []RunsMaximal
<1>1. DpiInv => RunsMaximal
  BY ScanRunsMaximal DEF DpiInv
<1> QED
  BY <1>1, Invariance, PTL

(* The loop over the words of a payload lists exactly the pointers. *)
THEOREM PointersAreComplete == PartsSpec => []PointersComplete
<1>1. DpiInv => PointersComplete
  BY ScanPointersComplete DEF DpiInv
<1> QED
  BY <1>1, Invariance, PTL

(* ElfParser and scan_payload together: no pointer into the GOT sections of*)
(* the target binary is overlooked, whatever its section headers.          *)
THEOREM GotPointersAreFound == PartsSpec => []GotPointersFound
<1>1. DpiInv => GotPointersFound
  BY DpiGotPointers
<1> QED
  BY <1>1, Invariance, PTL

(* analyze_file: digest and entropy are each of one whole version, with any*)
(* chunk size and any changes of the stated kinds between the reads.       *)
THEOREM VersionsAreWhole == PartsSpec => []WholeVersions
<1>1. IocInv => WholeVersions
  BY IocWholeVersions
<1> QED
  BY <1>1, Invariance, PTL
=============================================================================
