-------------------------------- MODULE Dpi --------------------------------
(***************************************************************************)
(* Payload inspection with --target-binary: main (xdr/correlator.py) has   *)
(* ElfParser compute the range of the binary's GOT, keeps the two numbers, *)
(* and log_packet hands them to scan_payload with each payload; without the*)
(* option, or without a GOT, scan_payload gets None and None.              *)
(***************************************************************************)
EXTENDS ElfParser, PayloadScan

ASSUME DpiAssumption ==
    /\ {MaxAddr, MaxSize, MaxSections, MaxCalls, MaxLen} \subseteq Nat
    /\ OtherName \cap {".got", ".got.plt"} = {}
    /\ {BYTE, SLED, RUN, WORD} \subseteq Nat \ {0} /\ RUN > 1
    /\ NOP \in 0 .. BYTE - 1

VARIABLE gotBytes   \* history: the addresses of the GOT sections of the binary

vars == <<elfVars, scanVars, gotBytes>>

Init ==
    /\ ElfInit
    /\ ScanInit
    /\ gotBytes = {}

parse ==
    /\ ElfNext
    /\ UNCHANGED <<scanVars, gotBytes>>

(* main keeps got_base and got_size; the parser is not used again.         *)
main ==
    /\ \/ parser = "read_header" /\ got' = <<>>
       \/ parser = "returned" /\ got' = results[Len(results)]
    /\ gotBytes' = UNION {table[i].addr .. table[i].addr + table[i].size - 1 :
                              i \in {j \in DOMAIN table : Counts(j)}}
    /\ parser' = "dropped" /\ e_shnum' = 0 /\ readelf' = "unused" /\ table' = <<>>
    /\ got_sections' = [name \in GotName |-> <<>>] /\ results' = <<>>
    /\ UNCHANGED <<scan, payload, start, sleds, runs, pointers>>

log_packet ==
    /\ parser = "dropped"
    /\ \E bytes \in UNION {[1 .. n -> 0 .. BYTE - 1] : n \in 0 .. MaxLen} :
          scan_payload(bytes, got)
    /\ UNCHANGED <<elfVars, gotBytes>>

scan_step ==
    /\ ScanStep
    /\ UNCHANGED <<elfVars, gotBytes>>

Next == parse \/ main \/ log_packet \/ scan_step

Spec == Init /\ [][Next]_vars

-----------------------------------------------------------------------------
(* Properties of the two together; those of each are in its module. *)

(* Every pointer into .got or .got.plt of the target binary that a payload *)
(* carries, at whatever offset, is reported: from the section headers, in  *)
(* whatever order and place, over the one range spanning both to the last  *)
(* word of the payload.  (A null pointer is no finding.)                   *)
GotPointersFound ==
    scan = "done" => \A i \in 0 .. Len(payload) - WORD :
        Value(i) \in gotBytes \ {0} => \E k \in DOMAIN pointers : pointers[k] = i
=============================================================================
