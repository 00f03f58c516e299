---------------------------- MODULE IocMatcher -----------------------------
(***************************************************************************)
(* analyze_file (xdr/binary/ioc_matcher.py) on a file that others change:  *)
(* it is opened and read in chunks for its SHA-256, then opened again and  *)
(* read at once for its entropy.                                           *)
(*                                                                         *)
(* External: the file system.  A path names a file; an open file is read   *)
(* on even when its path has been given to another one.  SHA-256 is taken  *)
(* to tell all contents apart, so that a digest is what was hashed; the    *)
(* entropy in floating point is a predicate on contents.                   *)
(***************************************************************************)
EXTENDS Integers, Sequences, FiniteSets, SequencesExt

CONSTANTS
    Byte,
    CHUNK,         \* chunk_size
    IocHashes,     \* ioc_hashes: known-bad contents
    HighEntropy,   \* contents with entropy >= entropy_threshold
    MaxLen,        \* bound on the length of a file
    MaxFiles,      \* bound on the files that the path names in turn
    MaxChanges     \* bound on the changes

VARIABLES
    files,      \* the contents of the files that the path has named, in turn
    path,       \* the one it names, 0 when there is none
    pc,         \* where analyze_file is
    fd,         \* the open file
    hashed,     \* what hasher.update was given
    data,       \* what the second read returned
    result,     \* is_known_ioc and high_entropy, <<>> before the end
    changes,    \* history: kinds of change since the call began
    hashedFd    \* history: the file that was hashed

vars == <<files, path, pc, fd, hashed, data, result, changes, hashedFd>>

Content == UNION {[1 .. n -> Byte] : n \in 0 .. MaxLen}

Init ==
    /\ \E c \in Content : files = <<c>>
    /\ path = 1
    /\ pc = "open_hash"
    /\ fd = 0
    /\ hashed = <<>>
    /\ data = <<>>
    /\ result = <<>>
    /\ changes = <<>>
    /\ hashedFd = 0

-----------------------------------------------------------------------------
(* Fault: the file is opened again for every chunk. *)
Source_Reopened == IF path = 0 THEN <<>> ELSE files[path]

(* What f.read reads from. *)
Source == files[fd]

(* f.read(chunk_size): less at the end of the file, nothing behind it. *)
Chunk ==
    SubSeq(Source, Len(hashed) + 1,
           IF Len(hashed) + CHUNK <= Len(Source) THEN Len(hashed) + CHUNK ELSE Len(Source))

(* open() of either function raises when the path names no file. *)
open ==
    /\ pc \in {"open_hash", "open_data"}
    /\ IF path = 0
       THEN pc' = "raised" /\ UNCHANGED <<fd, hashedFd>>
       ELSE /\ pc' = IF pc = "open_hash" THEN "hash" ELSE "read"
            /\ fd' = path
            /\ hashedFd' = IF pc = "open_hash" THEN path ELSE hashedFd
    /\ UNCHANGED <<files, path, hashed, data, result, changes>>

(* A turn of the loop of sha256_of_file. *)
sha256_of_file ==
    /\ pc = "hash"
    /\ IF Chunk = <<>> THEN pc' = "open_data" /\ UNCHANGED hashed
                       ELSE hashed' = hashed \o Chunk /\ UNCHANGED pc
    /\ UNCHANGED <<files, path, fd, data, result, changes, hashedFd>>

(* The second read, and the result. *)
analyze_file ==
    /\ pc = "read"
    /\ pc' = "done"
    /\ data' = Source
    /\ result' = <<[is_known_ioc |-> hashed \in IocHashes,
                    high_entropy |-> data' \in HighEntropy]>>
    /\ UNCHANGED <<files, path, fd, hashed, changes, hashedFd>>

(* Somebody changes the file, or what the path names. *)
Change(kind) ==
    /\ pc \notin {"done", "raised"}
    /\ Len(changes) < MaxChanges
    /\ changes' = Append(changes, kind)
    /\ UNCHANGED <<pc, fd, hashed, data, result, hashedFd>>

AppendByte ==
    /\ Change("append")
    /\ path # 0 /\ Len(files[path]) < MaxLen
    /\ \E b \in Byte : files' = [files EXCEPT ![path] = Append(@, b)]
    /\ UNCHANGED path

Overwrite ==
    /\ Change("overwrite")
    /\ path # 0
    /\ \E i \in DOMAIN files[path], b \in Byte : files' = [files EXCEPT ![path][i] = b]
    /\ UNCHANGED path

Truncate ==
    /\ Change("truncate")
    /\ path # 0
    /\ files' = [files EXCEPT ![path] = <<>>]
    /\ UNCHANGED path

Rename ==
    /\ Change("rename")
    /\ Len(files) < MaxFiles
    /\ \E c \in Content : files' = Append(files, c)
    /\ path' = Len(files')

Unlink ==
    /\ Change("unlink")
    /\ path' = 0
    /\ UNCHANGED files

Next ==
    \/ open \/ sha256_of_file \/ analyze_file
    \/ AppendByte \/ Overwrite \/ Truncate \/ Rename \/ Unlink

Spec == Init /\ [][Next]_vars

-----------------------------------------------------------------------------
(* Properties. *)

(* No change since the call began but those of the given kinds. *)
Only(kinds) == \A i \in DOMAIN changes : changes[i] \in kinds

(* When the file is replaced by rename or removed, never written in place, *)
(* the digest is that of one whole version and the entropy that of one, not*)
(* an older one; without any change both are about the same content, also  *)
(* when the last chunk is exactly full or the file is empty.  When the file*)
(* only grows, what was hashed is a prefix of what the entropy was computed*)
(* of: no byte that arrives between two chunks is skipped or hashed twice. *)
WholeVersions ==
    pc = "done" =>
        /\ Only({"rename", "unlink"}) =>
              /\ hashed = files[hashedFd]
              /\ data = files[fd]
              /\ hashedFd <= fd
              /\ changes = <<>> => hashed = data
              /\ result[1].is_known_ioc <=> files[hashedFd] \in IocHashes
        /\ Only({"append"}) => IsPrefix(hashed, data)
=============================================================================
