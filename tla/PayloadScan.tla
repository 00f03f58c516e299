---------------------------- MODULE PayloadScan ----------------------------
(***************************************************************************)
(* scan_payload (xdr/network/payload_scan.py): three loops over the bytes  *)
(* of one TCP payload, each with its own way of moving on after a hit.     *)
(* Each action is one turn of a loop; who calls it, and with which range of*)
(* addresses, is in Dpi.tla.                                               *)
(*                                                                         *)
(* Offsets start at 0, as in the code.  SLED, RUN and WORD are 16, 12 and  *)
(* 8 there; the bytes are 0 .. BYTE - 1 with BYTE = 256.                   *)
(***************************************************************************)
EXTENDS Integers, Sequences

CONSTANTS
    BYTE,        \* number of byte values
    NOP,         \* the byte 0x90
    SLED,        \* length of NOP_SLED
    RUN,         \* shortest run REPEATED_BYTE_RUN matches
    WORD,        \* bytes of a pointer
    UserSpace,   \* the range 0x400000 .. 0x7fffffffffff
    MaxLen       \* bound on the length of the payload

VARIABLES
    payload,     \* the argument, a sequence of bytes
    got,         \* got_base and got_size, or <<>> when one of them is None
    scan,        \* which loop
    start,       \* where that loop goes on
    sleds,       \* findings of the first loop: offsets, in order
    runs,        \* of the second: [offset, length]
    pointers     \* of the third: offsets

scanVars == <<payload, got, scan, start, sleds, runs, pointers>>

At(i) == payload[i + 1]

-----------------------------------------------------------------------------
(* Are the n bytes from offset i on there and all the same? *)
Same(i, n) == i + n <= Len(payload) /\ \A k \in i .. i + n - 1 : At(k) = At(i)

IsSled(i) == Same(i, SLED) /\ At(i) = NOP

(* payload.find(NOP_SLED, start), and the search of the regular expression:*)
(* of the offsets that match, the first from start on.                     *)
First(offsets, i) ==
    /\ i \in offsets
    /\ i >= start
    /\ \A j \in offsets : j < start \/ i <= j

IsRun(i) == Same(i, RUN)

Offsets == 0 .. Len(payload) - 1

(* Fault: a lazy quantifier *)
MatchLength_Lazy(i, n) == n = RUN

(* The quantifier is greedy: the match extends as far as the byte repeats. *)
MatchLength(i, n) == n \in RUN .. Len(payload) /\ Same(i, n) /\ ~ Same(i, n + 1)

(* struct.unpack('<Q', ...): the little-endian value of WORD bytes from    *)
(* offset i on, built up from the last of them.                            *)
Value(i) ==
    LET value[n \in 0 .. WORD] ==
            IF n = 0 THEN 0 ELSE At(i + WORD - n) + BYTE * value[n - 1]
    IN  value[WORD]

(* is_candidate, for a value at an offset: within the GOT where it is      *)
(* known, otherwise in user space and aligned.                             *)
IsCandidate(v, i) ==
    IF got = <<>> THEN v \in UserSpace /\ i % WORD = 0
    ELSE got[1].base <= v /\ v < got[1].base + got[1].size

-----------------------------------------------------------------------------
ScanInit ==
    /\ payload = <<>>
    /\ got = <<>>
    /\ scan = "uncalled"
    /\ start = 0
    /\ sleds = <<>>
    /\ runs = <<>>
    /\ pointers = <<>>

(* The call; an empty payload returns at once. *)
scan_payload(bytes, range) ==
    /\ scan = "uncalled"
    /\ payload' = bytes
    /\ got' = range
    /\ scan' = IF bytes = <<>> THEN "done" ELSE "sleds"
    /\ UNCHANGED <<start, sleds, runs, pointers>>

(* Fault: the search goes on one byte after the hit. *)
AfterSled_Overlaps(i) == i + 1

AfterSled(i) == i + SLED

FindSled ==
    /\ scan = "sleds"
    /\ \/ \E i \in Offsets :
             /\ First({j \in Offsets : IsSled(j)}, i)
             /\ sleds' = Append(sleds, i)
             /\ start' = AfterSled(i)
             /\ UNCHANGED scan
       \/ /\ \A i \in start .. Len(payload) - 1 : ~ IsSled(i)
          /\ scan' = "runs"
          /\ start' = 0
          /\ UNCHANGED sleds
    /\ UNCHANGED <<payload, got, runs, pointers>>

(* finditer: the next match begins where the last one ended. *)
FindRun ==
    /\ scan = "runs"
    /\ \/ \E i \in start .. Len(payload) - 1, n \in RUN .. Len(payload) :
             /\ First({j \in Offsets : IsRun(j)}, i)
             /\ MatchLength(i, n)
             /\ runs' = Append(runs, [offset |-> i, length |-> n])
             /\ start' = i + n
             /\ UNCHANGED scan
       \/ /\ \A i \in start .. Len(payload) - 1 : ~ IsRun(i)
          /\ scan' = "pointers"
          /\ start' = 0
          /\ UNCHANGED runs
    /\ UNCHANGED <<payload, got, sleds, pointers>>

(* Fault: range(0, len(payload) - 8). *)
LastOffset_Short == Len(payload) - WORD - 1

(* range(0, len(payload) - 7) *)
LastOffset == Len(payload) - WORD

CheckWord ==
    /\ scan = "pointers"
    /\ \/ /\ start <= LastOffset
          /\ pointers' = IF Value(start) # 0 /\ IsCandidate(Value(start), start)
                         THEN Append(pointers, start) ELSE pointers
          /\ start' = start + 1
          /\ UNCHANGED scan
       \/ /\ start > LastOffset
          /\ scan' = "done"
          /\ UNCHANGED <<start, pointers>>
    /\ UNCHANGED <<payload, got, sleds, runs>>

ScanStep == FindSled \/ FindRun \/ CheckWord

-----------------------------------------------------------------------------
(* Properties. *)

(* How far a loop has got: all of the payload once it is over. *)
Passed(loop) == IF scan = loop THEN start ELSE Len(payload)

(* The reported sleds are sleds and do not overlap, and every place with   *)
(* enough NOPs shares one with a reported sled: a longer sled is reported  *)
(* once per SLED bytes and none is missed by the jump over the last one.   *)
SledsCovered ==
    /\ \A k \in DOMAIN sleds : IsSled(sleds[k])
    /\ \A k \in DOMAIN sleds : k > 1 => sleds[k] >= sleds[k - 1] + SLED
    /\ \A i \in 0 .. Passed("sleds") - 1 : IsSled(i) =>
          \E k \in DOMAIN sleds : sleds[k] <= i /\ i < sleds[k] + SLED

(* A longest run of one byte value, at least RUN of it. *)
MaximalRun(i, n) ==
    /\ n >= RUN
    /\ Same(i, n)
    /\ ~ Same(i, n + 1)
    /\ i > 0 => At(i - 1) # At(i)

(* What the regular expression finds, with its greedy repetition and its   *)
(* restart behind each match, are exactly the maximal runs.                *)
RunsMaximal ==
    scan \in {"pointers", "done"} =>
        {<<runs[k].offset, runs[k].length>> : k \in DOMAIN runs} =
            {r \in (0 .. Len(payload)) \X (0 .. Len(payload)) : MaximalRun(r[1], r[2])}

(* Every address into the known GOT is reported wherever it lies in the    *)
(* payload, without a GOT every user-space address that begins a word, up  *)
(* to a pointer that ends with the payload; and nothing else is.           *)
PointersComplete ==
    scan = "done" => \A i \in 0 .. Len(payload) - 1 :
        (\E k \in DOMAIN pointers : pointers[k] = i) <=>
            /\ i + WORD <= Len(payload)
            /\ Value(i) # 0
            /\ \/ /\ got # <<>>
                  /\ Value(i) \in got[1].base .. got[1].base + got[1].size - 1
               \/ /\ got = <<>>
                  /\ Value(i) \in UserSpace
                  /\ \E word \in 0 .. Len(payload) : i = word * WORD
=============================================================================
