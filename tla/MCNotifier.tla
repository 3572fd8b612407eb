----------------------------- MODULE MCNotifier -----------------------------
(***************************************************************************)
(* The two goroutines of the notifier: the scan, which delivers alerts,    *)
(* and the bot's inbox, which decides who receives them in Telegram.  They *)
(* share only the row CanReceiveTelegram reads, which the delivery lets    *)
(* change at any time (gate), so a behaviour follows one of them (focus).  *)
(*                                                                         *)
(* Delivery: two alerts of one portfolio, both critical enough for         *)
(* Telegram.  Inbox: one user, three updates, one turn of the settings or  *)
(* the subscription, one fault.                                            *)
(***************************************************************************)
EXTENDS NotificationDelivery, TLC

CONSTANTS p1, Owners, RateLimit, Hour, MaxUpdates, MaxTurns, MaxClock, Idle

VARIABLES
  focus, clock, queue, arrived, offset, batch, marking, buckets, connected, entitled,
  written, relayed, refused, unsaid, answered, wanted, failed, crossed, turns, lapses

Bot == INSTANCE BotInbox WITH Users <- Owners, MaxTime <- MaxClock, faults <- lapses

\* Between two steps the inbox connects nobody, or one of the owners.
ASSUME InboxAssumption == Idle \notin Owners

MCPortfolios == {p1}
MCPortfolioOf == [a \in Alerts |-> p1]

botVars == <<clock, queue, arrived, offset, batch, marking, buckets, connected, entitled,
             written, relayed, refused, unsaid, answered, wanted, failed, crossed, turns, lapses>>

\* What the resting part starts with does not matter.
NotifierInit ==
  /\ focus \in {"delivery", "inbox"}
  /\ Init /\ Bot!Init
  /\ focus = "delivery" => entitled = [u \in Owners |-> TRUE]
  /\ focus = "inbox" => gate /\ notifier = Asleep(TRUE)

NotifierNext ==
  /\ UNCHANGED focus
  /\ \/ focus = "delivery" /\ Next /\ UNCHANGED botVars
     \/ focus = "inbox" /\ Bot!Next /\ UNCHANGED vars

NotifierSpec == NotifierInit /\ [][NotifierNext]_<<vars, botVars, focus>>

AlertSymmetry == Permutations(Alerts)

\* The property of the inbox, under the name it has there.
LetGoIsDone == Bot!LetGoIsDone
=============================================================================
