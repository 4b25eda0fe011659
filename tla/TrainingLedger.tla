--------------------------- MODULE TrainingLedger ---------------------------
(***************************************************************************)
(* The Training Ledger of one Panda: the panda_accounts row, the           *)
(* panda_positions rows and the vault's training budget, as the actor's    *)
(* commit_tick (TradeFactWriter over LedgerService) and the owner's budget *)
(* change write them.                                                      *)
(*                                                                         *)
(* commit_tick reads the account, awaits, and writes it much later; the    *)
(* ORM keeps the row it has read and updates only the columns that differ  *)
(* from it, and nothing locks the row in between.  The budget call does    *)
(* the same.  The actor is the only writer of positions.                   *)
(*                                                                         *)
(* Amounts are integers: a trade is offered only when its quantity and the *)
(* cost of what it sells come out whole, so that the 8 decimals of the     *)
(* columns are not told apart.  A position keeps its cost, quantity times  *)
(* average entry price.  Left out: debt_balance, which nothing ever sets,  *)
(* and the intents PolicyGate or the HOLD zone turn away, which leave the  *)
(* ledger as it is.                                                        *)
(***************************************************************************)
EXTENDS Integers, FiniteSetsExt

CONSTANTS
    Pair,        \* the market pairs
    Price,       \* reference prices
    Budget,      \* training budgets the owner may set
    InitBudget,  \* the budget of the setup, the actor's initial_capital
    MaxTrades    \* bound on executions

ASSUME LedgerAssumption ==
    /\ IsFiniteSet(Pair)
    /\ Price \subseteq Nat \ {0}
    /\ Budget \subseteq Nat \ {0}
    /\ InitBudget \in Nat \ {0}
    /\ MaxTrades \in Nat

VARIABLES
    account,   \* the committed panda_accounts row
    position,  \* the committed panda_positions rows; quantity 0 is no row
    budget,    \* panda_vaults.training_budget
    tick,      \* the account row the actor's open commit_tick has read
    call,      \* the account row the open budget call has read
    trades,    \* executions so far
    apart      \* history: no budget call was ever open together with a tick

ledgerVars == <<account, position, budget, tick, call, trades, apart>>

Account == [cash : Int, equity : Int, realized : Int, unrealized : Int]

Position ==
    [quantity : {0}, cost : {0}, mark : Nat] \cup [quantity : Nat \ {0}, cost : Nat, mark : Nat]

NotReading == [cash |-> 0, equity |-> 0, realized |-> 0, unrealized |-> 0, open |-> FALSE]

Reading == [cash : Int, equity : Int, realized : Int, unrealized : Int, open : BOOLEAN]

LedgerTypeOK ==
    /\ account \in Account
    /\ position \in [Pair -> Position]
    /\ budget \in Nat \ {0}
    /\ tick \in Reading
    /\ call \in Reading
    /\ trades \in 0..MaxTrades
    /\ apart \in BOOLEAN

LedgerInit ==
    /\ account = [cash |-> InitBudget, equity |-> InitBudget,
                  realized |-> 0, unrealized |-> 0]
    /\ position = [p \in Pair |-> [quantity |-> 0, cost |-> 0, mark |-> 0]]
    /\ budget = InitBudget
    /\ tick = NotReading
    /\ call = NotReading
    /\ trades = 0
    /\ apart = TRUE

Row(a, open) == [cash |-> a.cash, equity |-> a.equity, realized |-> a.realized,
                 unrealized |-> a.unrealized, open |-> open]

\* The columns a commit updates: those that differ from what was read.
Net(old, new, current) == IF new = old THEN current ELSE new

Flushed(seen, new) ==
    [cash       |-> Net(seen.cash, new.cash, account.cash),
     equity     |-> Net(seen.equity, new.equity, account.equity),
     realized   |-> Net(seen.realized, new.realized, account.realized),
     unrealized |-> Net(seen.unrealized, new.unrealized, account.unrealized)]

-----------------------------------------------------------------------------
(* commit_tick of an executable decision.                                  *)

TickReads ==
    /\ ~tick.open
    /\ trades < MaxTrades
    /\ tick' = Row(account, TRUE)
    /\ apart' = (apart /\ ~call.open)
    /\ UNCHANGED <<account, position, budget, call, trades>>

\* The transaction rolls back, or the intent is turned away: the actor logs
\* it and goes on.
TickFails ==
    /\ tick.open
    /\ tick' = NotReading
    /\ UNCHANGED <<account, position, budget, call, trades, apart>>

\* An equity of zero is read as "none yet".
SizingEquity == IF tick.equity = 0 THEN InitBudget ELSE tick.equity

\* equity * position_pct, for a position_pct of at most a quarter.
Notionals ==
    IF SizingEquity >= 0 THEN 0..(SizingEquity \div 4)
                         ELSE -((-SizingEquity) \div 4)..0

Unrealized(pos) ==
    LET Held == {p \in Pair : pos[p].quantity > 0}
    IN SumFunction([p \in Held |-> pos[p].quantity * pos[p].mark - pos[p].cost])

\* _refresh_equity: every position at the price of its own last trade.
Refreshed(cash, realized, pos) ==
    [cash |-> cash, realized |-> realized, unrealized |-> Unrealized(pos),
     equity |-> cash + Unrealized(pos)]

Lesser(a, b) == IF a <= b THEN a ELSE b

Committed(pos, new) ==
    /\ position' = pos
    /\ account' = Flushed(tick, new)
    /\ tick' = NotReading
    /\ trades' = trades + 1
    /\ UNCHANGED <<budget, call, apart>>

\* commit_tick cuts the notional to the cash, apply_execution again.
Spend(notional) == Lesser(notional, tick.cash)

\* A spend of zero or less is LEDGER_INSUFFICIENT_BALANCE.
Buy(p, price, notional) ==
    /\ tick.open
    /\ Spend(notional) > 0
    /\ Spend(notional) % price = 0
    /\ LET bought == Spend(notional) \div price
           pos == [position EXCEPT ![p] = [quantity |-> @.quantity + bought,
                                           cost |-> @.cost + Spend(notional),
                                           mark |-> price]]
       IN Committed(pos, Refreshed(tick.cash - Spend(notional), tick.realized, pos))

\* MUTANT of SellQuantity: the quantity is not cut to the position.
SellQuantityUncut(p, price, notional) == notional \div price

SellQuantity(p, price, notional) == Lesser(notional \div price, position[p].quantity)

\* sell_qty * avg_entry_price.
SoldCost(p, sold) == (position[p].cost * sold) \div position[p].quantity

\* No position is LEDGER_POSITION_NOT_FOUND.
Sell(p, price, notional) ==
    /\ tick.open
    /\ position[p].quantity > 0
    /\ notional % price = 0
    /\ LET sold == SellQuantity(p, price, notional)
           cost == SoldCost(p, sold)
           pos == [position EXCEPT ![p] = [quantity |-> @.quantity - sold,
                                           cost |-> @.cost - cost,
                                           mark |-> price]]
           gain == sold * price - cost
       IN /\ (position[p].cost * sold) % position[p].quantity = 0
          /\ Committed(pos, Refreshed(tick.cash + sold * price, tick.realized + gain, pos))

-----------------------------------------------------------------------------
(* update_training_budget.                                                 *)

BudgetReads ==
    /\ ~call.open
    /\ call' = Row(account, TRUE)
    /\ apart' = (apart /\ ~tick.open)
    /\ UNCHANGED <<account, position, budget, tick, trades>>

\* MUTANT of Affordable: a cut is not compared with the cash.
AffordableEquityOnly(delta) == delta < 0 => call.equity + delta >= 0

Affordable(delta) == delta < 0 => call.cash + delta >= 0 /\ call.equity + delta >= 0

\* MUTANT of Rebudgeted: the change reaches the cash and not the equity.
RebudgetedCashOnly(delta) == [call EXCEPT !.cash = @ + delta]

\* MUTANT of Rebudgeted: the change reaches the equity and not the cash.
RebudgetedEquityOnly(delta) == [call EXCEPT !.equity = @ + delta]

Rebudgeted(delta) == [call EXCEPT !.cash = @ + delta, !.equity = @ + delta]

\* A change that is not affordable is refused.
BudgetCommits(new) ==
    /\ call.open
    /\ LET delta == new - budget
       IN IF Affordable(delta)
          THEN /\ account' = Flushed(call, Rebudgeted(delta))
               /\ budget' = new
          ELSE UNCHANGED <<account, budget>>
    /\ call' = NotReading
    /\ UNCHANGED <<position, tick, trades, apart>>

LedgerNext ==
    \/ TickReads
    \/ TickFails
    \/ \E p \in Pair, price \in Price, notional \in Notionals :
          \/ Buy(p, price, notional)
          \/ Sell(p, price, notional)
    \/ BudgetReads
    \/ \E new \in Budget : BudgetCommits(new)

LedgerSpec == LedgerInit /\ [][LedgerNext]_ledgerVars

-----------------------------------------------------------------------------
(* Properties.                                                             *)

Invested == SumFunction([p \in Pair |-> position[p].cost])

\* Every unit of the budget is cash or the cost of what is held, but for
\* what trades have gained or lost, across budget changes and partial sells.
Conserved == apart => account.cash + Invested = budget + account.realized

\* What the account row tells is one state of the ledger: its equity is its
\* cash plus its unrealized PnL, and that is the PnL of the positions.
RowConsistent ==
    apart => /\ account.equity = account.cash + account.unrealized
             /\ account.unrealized = Unrealized(position)

\* A Panda whose equity is not negative spends no cash it does not have,
\* whatever it trades and however its budget is cut.
CashCovered ==
    [][apart /\ account.equity >= 0 /\ account.cash >= 0 => account'.cash >= 0]_ledgerVars

=============================================================================
