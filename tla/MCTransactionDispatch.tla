------------------------ MODULE MCTransactionDispatch ------------------------
(***************************************************************************)
(* Instances of TransactionDispatch for TLC. Ports and clients are model   *)
(* values: only their equality matters, so the safety runs identify states *)
(* that differ in their names. A record keeps a port until it is filled    *)
(* again, so Count = 2 needs four ports for one to be fresh at any time.   *)
(***************************************************************************)
EXTENDS TransactionDispatch, TLC

\* Every worker thread has entered Run before the first request comes.
StartedInit ==
  /\ workers = [w \in Slots |-> [state |-> "WAITING_FOR_REQUEST", clientTid |-> 0,
                                 serverTid |-> 0, socket |-> Count]]
  /\ sockets = [s \in Slots |-> [state |-> "Inactive", port |-> 0]]
  /\ records = [r \in Slots |-> [socketId |-> 0, clientTID |-> 0,
                                 serverTID |-> 0, isActive |-> FALSE]]
  /\ ending = [w \in Slots |-> NotEnding]
  /\ dispatch = Polling
  /\ crashed = FALSE

StartedSpec == StartedInit /\ [][Next]_vars

Identifiers == Permutations(Clients) \cup Permutations(Ports)
=============================================================================
