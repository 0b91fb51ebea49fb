-------------------------- MODULE MCTransferServer --------------------------
(***************************************************************************)
(* Small instances of TransferServer for TLC: Ann's phone, Bea's phone and *)
(* laptop, the owner's phone and the server itself.                        *)
(***************************************************************************)
EXTENDS TransferServerRefinement, TLC

Ann == "ann"
Bea1 == "bea1"
Bea2 == "bea2"
Owner == "owner"
Server == "server"
MCDevice == {Ann, Bea1, Bea2, Owner, Server}
MCPerson == {"Ann", "Bea", "own"}
MCPersonOf == [d \in MCDevice |->
    CASE d = Ann -> "Ann" [] d \in {Bea1, Bea2} -> "Bea" [] OTHER -> "own"]

Header(i, from, to, size) == [id |-> i, from |-> from, to |-> to, size |-> size]
ToAll(e) == [env |-> e, all |-> TRUE]
ToAny(e) == [env |-> e, all |-> FALSE]

\* One file for both of Bea's devices.
FileEnvelope == {Header(1, Ann, {Bea1, Bea2}, 1)}
FileRequest == {ToAll(e) : e \in FileEnvelope}

\* A file of Ann for Bea and one for the owner's phone, each as much as she may
\* store, and, under the second's id, a file of the owner that fills the server,
\* or a message of the owner for Bea, who may have one item waiting.
QuotaEnvelope == {Header(1, Ann, {Bea1}, 1), Header(2, Ann, {Owner}, 1),
                  Header(2, Owner, {Bea2}, 4), Header(2, Owner, {Bea1}, 0)}
QuotaRequest == {ToAny(e) : e \in QuotaEnvelope}

\* The server's own app leaves a message, or (refused) something larger, for
\* Bea; or Ann leaves a file for her under that id.
LocalEnvelope == {Header(1, Server, {Bea1}, 0), Header(1, Server, {Bea1}, 1),
                  Header(1, Ann, {Bea1, Bea2}, 1)}
LocalRequest == {ToAll(e) : e \in LocalEnvelope}

\* Deposit handlers are interchangeable.
ConnSymmetry == Permutations(Conn)
=============================================================================
