--------------------------- MODULE VersionedStore ---------------------------
(***************************************************************************)
(* What the registries on the ledger promise their clients: a record's     *)
(* version grows by one with every change, so that a client whose copy has *)
(* the record's version has the record.  An update that is refused unless  *)
(* the versions agree then overwrites nothing its author has not seen.     *)
(***************************************************************************)
EXTENDS Naturals

CONSTANTS StoreKeys, Values, Clients, Blank   (* Blank: of a key not yet written *)

VARIABLES
  store,      (* store[k]: version and value (version 0: absent)           *)
  copies      (* copies[c]: the record c last read, and its key            *)

storeVars == <<store, copies>>

StoreTypeOK ==
  /\ store \in [StoreKeys -> [version : Nat, value : Values]]
  /\ copies \in [Clients -> [key : StoreKeys, version : Nat, value : Values]]

StoreInit ==
  /\ store = [k \in StoreKeys |-> [version |-> 0, value |-> Blank]]
  /\ copies \in [Clients -> [key : StoreKeys, version : {0}, value : {Blank}]]

ReadRecord(c, k) ==
  /\ copies' = [copies EXCEPT ![c] =
       [key |-> k, version |-> store[k].version, value |-> store[k].value]]
  /\ UNCHANGED store

\* Any number of records change at once, each by one version.
WriteRecords ==
  /\ store' \in [StoreKeys -> [version : Nat, value : Values]]
  /\ \A k \in StoreKeys :
       store'[k] = store[k] \/ store'[k].version = store[k].version + 1
  /\ UNCHANGED copies

StoreNext == WriteRecords \/ \E c \in Clients, k \in StoreKeys : ReadRecord(c, k)

StoreSpec == StoreInit /\ [][StoreNext]_storeVars

\* A copy of the current version is the record.
CopiesTell ==
  \A c \in Clients : LET own == copies[c]  now == store[own.key] IN
    /\ own.version <= now.version
    /\ own.version = now.version => own.value = now.value
=============================================================================
