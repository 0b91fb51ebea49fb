------------------------------ MODULE Mailbox ------------------------------
(***************************************************************************)
(* What a Transfer Server promises, as its senders and recipients see it   *)
(* through mailbox.deposit, fetch, ack, cancel and status: no disk, no     *)
(* handlers, no collector.  An item is taken in, held, read by recipients, *)
(* and concluded once; its conclusion is kept for a while.                 *)
(***************************************************************************)
CONSTANTS Id, Device

VARIABLES
    status,    \* what mailbox.status would answer about each id
    got,       \* the devices that have read the item
    promised   \* the items whose sender holds the answer "held"

boxVars == <<status, got, promised>>

Open == {"uploading", "held"}
Ended == {"delivered", "rejected", "canceled", "expired"}

BoxInit ==
    /\ status = [i \in Id |-> "unknown"]
    /\ got = [i \in Id |-> {}]
    /\ promised = {}

\* A deposit is admitted under an id the server knows nothing about.
Take(i) ==
    /\ status[i] = "unknown" /\ status'[i] = "uploading"
    /\ got'[i] = {}
    /\ i \notin promised'

\* All bytes are here.  Only now can the item be promised, and be read.
HoldItem(i) ==
    /\ status[i] = "uploading" /\ status'[i] = "held"
    /\ got'[i] = got[i]
    /\ i \in promised' => i \in promised

Promise(i) ==
    /\ status[i] = "held" /\ status'[i] = "held"
    /\ got'[i] = got[i]
    /\ i \in promised'

Read(i, d) ==
    /\ status[i] = "held" /\ status'[i] = "held"
    /\ got'[i] = got[i] \cup {d}
    /\ i \in promised' <=> i \in promised

\* The item ends, once; "delivered" only if someone read it.
End(i, st) ==
    /\ status[i] \in Open /\ status'[i] = st
    /\ st = "delivered" => got[i] # {}
    /\ got'[i] = got[i]
    /\ i \notin promised'

\* The conclusion has aged out.
Forget(i) ==
    /\ status[i] \in Ended /\ status'[i] = "unknown"
    /\ got'[i] = got[i]
    /\ i \notin promised'

Same(i) ==
    /\ status'[i] = status[i] /\ got'[i] = got[i]
    /\ i \in promised' <=> i \in promised

\* Items are independent; one step of the server may move several of them.
ItemStep(i) ==
    \/ Take(i) \/ HoldItem(i) \/ Promise(i) \/ Forget(i) \/ Same(i)
    \/ \E d \in Device : Read(i, d)
    \/ \E st \in Ended : End(i, st)

BoxNext == \A i \in Id : ItemStep(i)

BoxSpec == BoxInit /\ [][BoxNext]_boxVars
=============================================================================
