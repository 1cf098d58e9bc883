--------------------------------- MODULE MCChat ---------------------------------
(* A small instance of Chat for TLC. *)
EXTENDS Chat, SequencesExt

\* Every message of up to five symbols: names of users and delimiters.
AllLines == SeqOf(Users \cup {Delimiter}, 5)
=================================================================================
