-------------------------- MODULE MCVerifyProduct --------------------------
(***************************************************************************)
(* The scan on every vector of up to four products over two identifiers,   *)
(* marked and unmarked, repeated and absent.                               *)
(***************************************************************************)
EXTENDS VerifyProduct, SequencesExt

CONSTANT MaxLength    \* bound: the length of the vectors

Entries == [id : ProductId, name : Name, manufacturer : Address,
            timestamp : {0}, is_authentic : BOOLEAN]

MCVectors == BoundedSeq(Entries, MaxLength)
=============================================================================
