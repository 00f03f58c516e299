------------------------------ MODULE MCParts ------------------------------
(* Two parts of the system that do not meet, for TLC: the inspection of    *)
(* payloads (Dpi) and the analysis of a file (IocMatcher).  Each behaviour *)
(* is one of a single part.                                                *)
EXTENDS Dpi

CONSTANTS Byte, CHUNK, IocHashes, HighEntropy, MaxFileLen, MaxFiles, MaxChanges   \* IocMatcher

ASSUME PartsAssumption ==
    /\ {MaxFileLen, MaxFiles, MaxChanges} \subseteq Nat
    /\ CHUNK \in Nat \ {0}
    /\ <<>> \notin HighEntropy

VARIABLES
    part,                                                              \* which one
    files, path, reader, fd, hashed, data, result, changes, hashedFd   \* IocMatcher

Ioc == INSTANCE IocMatcher WITH pc <- reader, MaxLen <- MaxFileLen

iocVars == <<files, path, reader, fd, hashed, data, result, changes, hashedFd>>

MCUserSpace   == 2 .. 7
MCIocHashes   == {<<1, 1>>}
MCHighEntropy == {<<0, 1>>, <<0, 1, 1>>, <<1, 0, 0>>}

PartsInit ==
    /\ part \in {"dpi", "ioc"}
    /\ Init
    /\ Ioc!Init
    /\ part # "ioc" => files = <<<<>>>>

PartsNext ==
    /\ UNCHANGED part
    /\ \/ part = "dpi" /\ Next     /\ UNCHANGED iocVars
       \/ part = "ioc" /\ Ioc!Next /\ UNCHANGED vars

PartsSpec == PartsInit /\ [][PartsNext]_<<part, vars, iocVars>>

-----------------------------------------------------------------------------
(* analyze_file: digest and entropy are each of one whole version, and of a*)
(* growing file a prefix is hashed.                                        *)
WholeVersions == Ioc!WholeVersions
=============================================================================
