--------------------------- MODULE PositionLedger ---------------------------
(***************************************************************************)
(* The position ledger of the ETF service (etf_service/position_ledger.py) *)
(* and the REST handlers that create and redeem ETF shares                 *)
(* (etf_service/app.py), on top of the ETF service's ClearingClient.       *)
(*                                                                         *)
(* Each request runs in a thread of its own (Flask) and holds the ledger's *)
(* lock while it checks and changes the adjustments.  The clearing thread  *)
(* does not take that lock: a fill may come between any two positions that *)
(* a request reads, and between the last of them and the change.           *)
(***************************************************************************)
EXTENDS Clearing

CONSTANTS
    ETF_SYMBOL,
    UNDERLYING_SYMBOLS, \* a sequence, in the order they are checked
    Threads,            \* the threads of the REST server
    NoThread,
    Amounts,            \* the amounts asked for
    MaxRequests         \* bound: requests made

Underlyings == {UNDERLYING_SYMBOLS[i] : i \in DOMAIN UNDERLYING_SYMBOLS}

ASSUME LedgerAssumption ==
    /\ UNDERLYING_SYMBOLS \in Seq(Symbols)
    /\ ETF_SYMBOL \in Symbols \ Underlyings
    /\ NoThread \notin Threads
    /\ Amounts \subseteq Int
    /\ MaxRequests \in Nat

VARIABLES
    lock,               \* the thread that holds the ledger's lock
    request,            \* by thread: the request it handles
    requests,           \* how many requests were made
    etf_adjustments,    \* by client and symbol
    peak                \* history: the highest position each client had from fills

ledgerVars == <<lock, request, requests, etf_adjustments, peak>>
serviceVars == <<clearingVars, ledgerVars>>

Idle == [op |-> "idle"]
Requests == [op : {"create", "redeem"}, client : Clients,
             amount : {n \in Amounts : n > 0}, checked : Nat, insufficient : BOOLEAN]

-----------------------------------------------------------------------------
\* Mutant: positions are checked without the lock.
MayEnterUnlocked(t) == TRUE

MayEnter(t) == lock = NoThread

\* Mutant: any amount is accepted.
ValidAnyAmount(amount) == TRUE

\* Other amounts are refused before anything is read.
ValidAmount(amount) == amount > 0

\* create_etf and redeem_etf up to taking the lock; nothing is read before.
Begin(t, op, client, amount) ==
    /\ request[t] = Idle
    /\ requests < MaxRequests
    /\ ValidAmount(amount)
    /\ MayEnter(t)
    /\ lock' = t
    /\ request' = [request EXCEPT ![t] = [op |-> op, client |-> client, amount |-> amount,
                                          checked |-> 0, insufficient |-> FALSE]]
    /\ requests' = requests + 1
    /\ UNCHANGED <<clearingVars, etf_adjustments, peak>>

\* The symbols whose positions a request needs.
Needed(op) == IF op = "create" THEN UNDERLYING_SYMBOLS ELSE <<ETF_SYMBOL>>

ClearingPosition(p) == accounts["etf_service"].positions[p]
EffectivePosition(p) == ClearingPosition(p) + etf_adjustments[p]

\* The position of one more symbol is looked at.
CheckPosition(t) ==
    LET r == request[t]
        p == <<r.client, Needed(r.op)[r.checked + 1]>>
    IN  /\ r # Idle
        /\ r.checked < Len(Needed(r.op))
        /\ request' = [request EXCEPT ![t].checked = @ + 1,
                                      ![t].insufficient = @ \/ EffectivePosition(p) < r.amount]
        /\ UNCHANGED <<clearingVars, lock, requests, etf_adjustments, peak>>

\* Mutant: redeeming credits the first underlying only.
AdjustedFirst(r) ==
    LET n == IF r.op = "create" THEN r.amount ELSE -r.amount
    IN  [p \in Pairs |->
           etf_adjustments[p] +
           CASE p[1] # r.client -> 0
             [] p = <<r.client, ETF_SYMBOL>> -> n
             [] p[2] \in Underlyings /\ (r.op = "create" \/ p[2] = UNDERLYING_SYMBOLS[1]) -> -n
             [] OTHER -> 0]

\* The adjustments after creating (or redeeming) the amount asked for.
Adjusted(r) ==
    LET n == IF r.op = "create" THEN r.amount ELSE -r.amount
    IN  [p \in Pairs |->
           etf_adjustments[p] +
           CASE p[1] # r.client -> 0
             [] p = <<r.client, ETF_SYMBOL>> -> n
             [] p[2] \in Underlyings /\ p[1] = r.client -> -n
             [] OTHER -> 0]

\* Refused or carried out; the lock is released.
Finish(t) ==
    LET r == request[t] IN
    /\ r # Idle
    /\ r.checked = Len(Needed(r.op))
    /\ etf_adjustments' = IF r.insufficient THEN etf_adjustments ELSE Adjusted(r)
    /\ request' = [request EXCEPT ![t] = Idle]
    /\ lock' = NoThread
    /\ UNCHANGED <<clearingVars, requests, peak>>

\* The feed and its consumers.
Feed ==
    /\ ClearingNext
    /\ peak' = [p \in Pairs |-> FSets!Max({peak[p], accounts'["etf_service"].positions[p]})]
    /\ UNCHANGED <<lock, request, requests, etf_adjustments>>

-----------------------------------------------------------------------------
ServiceInit ==
    /\ ClearingInit
    /\ lock = NoThread
    /\ request = [t \in Threads |-> Idle]
    /\ requests = 0
    /\ etf_adjustments = [p \in Pairs |-> 0]
    /\ peak = [p \in Pairs |-> 0]

Handler(t) ==
    \/ \E op \in {"create", "redeem"}, client \in Clients, amount \in Amounts :
          Begin(t, op, client, amount)
    \/ CheckPosition(t)
    \/ Finish(t)

ServiceNext == Feed \/ \E t \in Threads : Handler(t)

ServiceSpec == ServiceInit /\ [][ServiceNext]_serviceVars

-----------------------------------------------------------------------------
(* The properties. *)

\* Every variable keeps its type; requests for nothing, or less, are not handled (create_etf,
\* redeem_etf).
ServiceTypeOK ==
    /\ fills \in Seq(Fills)
    /\ read \in [Consumers -> 0..MaxFills]
    /\ request \in [Threads -> Requests \cup {Idle}]
    /\ lock \in Threads \cup {NoThread}
    /\ etf_adjustments \in [Pairs -> Int]

\* Creating and redeeming neither makes nor loses anything (create_etf, redeem_etf): what a
\* client was debited of every underlying is what it was credited of the ETF, and no other
\* symbol is touched.
AdjustmentsBalance ==
    \A client \in Clients, symbol \in Symbols \ {ETF_SYMBOL} :
        etf_adjustments[<<client, symbol>>] =
            IF symbol \in Underlyings THEN -etf_adjustments[<<client, ETF_SYMBOL>>] ELSE 0

\* No position is spent twice (create_etf, redeem_etf): whichever requests are handled at
\* the same time and whatever fills arrive meanwhile, a client is debited of no more of a
\* symbol than it held at some time from its fills.
NothingSpentTwice == \A p \in Pairs : etf_adjustments[p] + peak[p] >= 0
=============================================================================
