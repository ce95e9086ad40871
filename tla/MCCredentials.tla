---------------------------- MODULE MCCredentials ----------------------------
(* An instance of Credentials for TLC.                                     *)
EXTENDS Credentials, TLC

(* Processes and names are interchangeable; only safety is checked.        *)
ProcessNameSymmetry == Permutations(Processes) \cup Permutations(Names)
=============================================================================
