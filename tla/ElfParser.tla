----------------------------- MODULE ElfParser -----------------------------
(***************************************************************************)
(* xdr/binary/elf_analyzer.py: ElfParser.get_got_range on one binary, from *)
(* the header over the cross-check with readelf and the walk through the   *)
(* section header table to the range scan_payload is given.                *)
(*                                                                         *)
(* The file is what the reads find in it: each step chooses the outcome of *)
(* its read.  A section header has its name resolved, the string table     *)
(* being read whole before the walk.                                       *)
(***************************************************************************)
EXTENDS Integers, Sequences, FiniteSets, FiniteSetsExt

CONSTANTS
    OtherName,     \* names of sections that are no GOT
    MaxAddr,       \* bound on addresses
    MaxSize,       \* bound on sizes
    MaxSections,   \* bound on e_shnum
    MaxCalls       \* bound on the calls of get_got_range

VARIABLES
    parser,            \* where the call is
    e_shnum,       \* the number of sections in the header
    readelf,       \* what running readelf did; "unused" before
    table,         \* the section headers read so far, in order
    got_sections,  \* self._got_sections; <<>> stands for a None in it
    results        \* what the calls have returned; <<>> is (None, None)

elfVars == <<parser, e_shnum, readelf, table, got_sections, results>>

GotName == {".got", ".got.plt"}
Section == [name : GotName \cup OtherName, addr : 0 .. MaxAddr, size : 0 .. MaxSize]

-----------------------------------------------------------------------------
ElfInit ==
    /\ parser = "read_header"
    /\ e_shnum = 0
    /\ readelf = "unused"
    /\ table = <<>>
    /\ got_sections = [name \in GotName |-> <<>>]
    /\ results = <<>>

(* read_elf_header raises without the file, and exits when it is too short *)
(* or no ELF.                                                              *)
read_elf_header ==
    /\ parser = "read_header"
    /\ \/ parser' = "cross_check" /\ e_shnum' \in 0 .. MaxSections
       \/ parser' \in {"raised", "exited"} /\ UNCHANGED e_shnum
    /\ UNCHANGED <<readelf, table, got_sections, results>>

(* cross_check_header: a mismatch exits; the exceptions of subprocess.run  *)
(* in dump_readelf_header, FileNotFoundError and CalledProcessError, are   *)
(* not caught.                                                             *)
cross_check_header ==
    /\ parser = "cross_check"
    /\ readelf' \in {"agrees", "disagrees", "fails", "missing"}
    /\ parser' = CASE readelf' = "agrees" -> "string_table"
               [] readelf' = "disagrees" -> "exited"
               [] OTHER -> "raised"
    /\ UNCHANGED <<e_shnum, table, got_sections, results>>

(* The header of the string table; struct.unpack raises when it is cut.    *)
read_string_table ==
    /\ parser = "string_table"
    /\ parser' \in {"walk", "raised"}
    /\ UNCHANGED <<e_shnum, readelf, table, got_sections, results>>

(* The loop of _walk_got_section: e_shnum turns, or up to a short read.    *)
walk_got_section ==
    /\ parser = "walk"
    /\ \/ /\ Len(table) < e_shnum
          /\ \E s \in Section : /\ table' = Append(table, s)
                                /\ got_sections' =
                                      IF s.name \in GotName
                                      THEN [got_sections EXCEPT ![s.name] = <<s.addr, s.size>>]
                                      ELSE got_sections
          /\ UNCHANGED parser
       \/ /\ parser' = "verify"
          /\ UNCHANGED <<table, got_sections>>
    /\ UNCHANGED <<e_shnum, readelf, results>>

(* parse_gotverify only prints; here a missing or failing readelf is caught.*)
parse_gotverify ==
    /\ parser = "verify"
    /\ parser' = "parsed"
    /\ UNCHANGED <<e_shnum, readelf, table, got_sections, results>>

found == {got_sections[name] : name \in {n \in GotName : got_sections[n] # <<>>}}

(* Fault: the size of the largest section, not of the span. *)
Span_LargestSize ==
    <<[base |-> Min({s[1] : s \in found}), size |-> Max({s[2] : s \in found})]>>

(* got_base and got_size out of what was found. *)
Span ==
    LET base == Min({s[1] : s \in found})
        end  == Max({s[1] + s[2] : s \in found})
    IN  <<[base |-> base, size |-> end - base]>>

get_got_range ==
    /\ parser = "parsed"
    /\ parser' = "returned"
    /\ results' = Append(results, IF found = {} THEN <<>> ELSE Span)
    /\ UNCHANGED <<e_shnum, readelf, table, got_sections>>

(* A further call finds _got_sections set and does not look at the file,   *)
(* also when neither section was found.                                    *)
call_again ==
    /\ parser = "returned"
    /\ Len(results) < MaxCalls
    /\ parser' = "parsed"
    /\ UNCHANGED <<e_shnum, readelf, table, got_sections, results>>

ElfNext ==
    \/ read_elf_header \/ cross_check_header \/ read_string_table
    \/ walk_got_section \/ parse_gotverify \/ get_got_range \/ call_again

-----------------------------------------------------------------------------
(* The GOT section of a name that counts: the last one in the table. *)
Counts(i) ==
    /\ table[i].name \in GotName
    /\ \A j \in i + 1 .. Len(table) : table[j].name # table[i].name
=============================================================================
