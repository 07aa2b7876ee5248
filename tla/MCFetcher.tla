----------------------------- MODULE MCFetcher -----------------------------
(* Instances of Fetcher for TLC. *)
EXTENDS Fetcher

Plain == [kind |-> "plain"]
Txn1(k) == [kind |-> k, pid |-> 1]

(* Three plain records; an aborted transaction, a committed one and a      *)
(* message of the old format after it.                                     *)
Simple == {<<Plain, Plain, Plain>>}
Transactional == {<<Txn1("data"), Txn1("abort"), Txn1("data"),
                    Txn1("commit"), [kind |-> "legacy"]>>}

Earliest == BEGINNING
Latest == END
NoReset == INVALID

Positions == {0, END}
Seekable == {1, BEGINNING}
Tails == {TAIL_BASE - 1}
=============================================================================
