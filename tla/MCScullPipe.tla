----------------------------- MODULE MCScullPipe -----------------------------
(* The instances of ScullPipe that TLC checks. *)
EXTENDS ScullPipe, TLC

CONSTANTS a, b, reader, writer, other

File(acc, nb) == [access |-> acc, nonblock |-> nb]

MCPayloads == {<<a, b>>}
MCReads    == File({"r"}, FALSE)
MCWrites   == File({"w"}, FALSE)
MCBoth     == File({"r", "w"}, TRUE)

(* A writer, and a process that comes as a reader, as a second writer, or as
   both with O_NONBLOCK. *)
MCModes == [p \in Procs |-> IF p = other THEN {MCReads, MCWrites, MCBoth}
                                         ELSE {MCWrites}]

(* A reader, a writer, and a process that comes as a second reader or as both
   with O_NONBLOCK. *)
MCTrio == [p \in Procs |-> CASE p = reader -> {MCReads}
                             [] p = writer -> {MCWrites}
                             [] p = other  -> {MCReads, MCBoth}]
=============================================================================
