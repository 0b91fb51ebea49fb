---------------------- MODULE TransferServerRefinement ----------------------
(***************************************************************************)
(* The Transfer Server implements Mailbox: through concurrent handlers, a  *)
(* store on disk, a collector with two locks, and crashes, a sender and a  *)
(* recipient see an atomic mailbox.                                        *)
(***************************************************************************)
EXTENDS TransferServer

\* mailbox.status: the item's state, or how it ended, or nothing.
StatusOf(i) ==
    IF items[i] # None THEN items[i].state
    ELSE IF receipts[i] # None THEN receipts[i].state
    ELSE "unknown"

Box == INSTANCE Mailbox WITH
    status <- [i \in Id |-> StatusOf(i)],
    got <- read,
    promised <- toldHeld

\* Every behaviour of the server, seen through mailbox.status, the reads and the
\* answers "held", is one of Mailbox, restarts and failed deletes included.
\* (Of fewer receipts than items one may be dropped the moment it is written:
\* the refinement is for ReceiptMax >= Cardinality(Id).)
ImplementsMailbox == Box!BoxSpec
=============================================================================
