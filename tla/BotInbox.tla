------------------------------ MODULE BotInbox ------------------------------
(***************************************************************************)
(* The bot's inbox: the goroutine of the notifier that polls Telegram for  *)
(* commands, switches an owner's notifications on and off, and carries     *)
(* messages between users and the support chat.                            *)
(*                                                                         *)
(* Telegram keeps an update until it is asked for a later one.  The offset *)
(* and the limiter's buckets live in memory, so a restarted notifier sees  *)
(* again what it has handled since its last poll.  The settings page of    *)
(* the API switches the notifications off in the same row.                 *)
(***************************************************************************)
EXTENDS Naturals, Sequences, FiniteSets

CONSTANTS
  Users,
  RateLimit, Hour,   \* supportRateLimitPerHour; an hour in ticks of the clock
  MaxUpdates, MaxTurns, MaxTime, MaxFaults,   \* bounds
  Idle

VARIABLES
  clock,
  queue,      \* updates Telegram holds: [id, kind, user, of]
  arrived,    \* updates ever sent
  offset,     \* the next update to ask for, 0 after a start
  batch,      \* updates of the last answer still to handle
  marking,    \* the user /start is about to connect, or Idle
  buckets,    \* when each user last wrote to support
  connected,  \* users.bot_connected_at
  entitled,   \* owners with access (GetStatus)
  written,    \* history: messages to support
  relayed,    \* history: support messages that reached the support chat
  refused,    \* history: support messages whose author was told they did not
  unsaid,     \* history: support messages whose refusal could not be sent either
  answered,   \* history: support messages that were replied to
  wanted,     \* history: the last of the owner's switches is on
  failed,     \* history: a switch was lost by a failed write
  crossed,    \* history: switched off in the settings with updates unconfirmed
  turns, faults

vars == <<clock, queue, arrived, offset, batch, marking, buckets, connected, entitled,
          written, relayed, refused, unsaid, answered, wanted, failed, crossed, turns, faults>>

history == <<written, relayed, refused, unsaid, answered, wanted, failed, crossed>>
world == <<clock, queue, arrived, entitled, written, wanted, crossed, turns>>

Kinds == {"start", "stop", "blocked", "text", "help"}
Switches == {"start", "stop", "blocked"}

\* Updates have ids in the order they are sent; a reply is of a relayed message.
Updates == [id : Nat, kind : Kinds, user : Users, of : {0}]
  \cup [id : Nat, kind : {"reply"}, user : {Idle}, of : Nat]

Fault == faults < MaxFaults /\ faults' = faults + 1
Working == marking # Idle \/ batch # <<>>

Init ==
  /\ clock = 0 /\ queue = <<>> /\ arrived = 0 /\ offset = 0 /\ batch = <<>> /\ marking = Idle
  /\ buckets = [u \in Users |-> <<>>]
  /\ connected = [u \in Users |-> FALSE]
  /\ entitled \in [Users -> BOOLEAN]
  /\ written = {} /\ relayed = {} /\ refused = {} /\ unsaid = {} /\ answered = {}
  /\ wanted = [u \in Users |-> FALSE]
  /\ failed = [u \in Users |-> FALSE] /\ crossed = [u \in Users |-> FALSE]
  /\ turns = 0 /\ faults = 0

-----------------------------------------------------------------------------
(* Telegram, the users and the clock. *)

Outstanding(u) == \E i \in DOMAIN queue : queue[i].user = u

Arrive(kind, user, of) ==
  /\ arrived < MaxUpdates
  /\ arrived' = arrived + 1
  /\ queue' = Append(queue, [id |-> arrived + 1, kind |-> kind, user |-> user, of |-> of])

\* A user writes to the bot, or blocks it.
Send(u, kind) ==
  /\ Arrive(kind, u, 0)
  /\ written' = IF kind = "text" THEN written \cup {arrived'} ELSE written
  /\ wanted' = [wanted EXCEPT ![u] = IF kind \in Switches THEN kind = "start" ELSE @]
  /\ failed' = [failed EXCEPT ![u] = @ /\ (kind \notin Switches \/ Outstanding(u))]
  /\ crossed' = [crossed EXCEPT ![u] = @ /\ (kind \notin Switches \/ Outstanding(u))]
  /\ UNCHANGED <<clock, offset, batch, marking, buckets, connected, entitled, relayed,
                 refused, unsaid, answered, turns, faults>>

\* An operator replies to a relayed message, or talks in the support chat.
Operator(of) ==
  /\ Arrive("reply", Idle, of)
  /\ UNCHANGED <<clock, offset, batch, marking, buckets, connected, entitled, history, turns,
                 faults>>

Subscribe(u) ==
  /\ turns < MaxTurns /\ turns' = turns + 1
  /\ entitled' = [entitled EXCEPT ![u] = ~@]
  /\ UNCHANGED <<clock, queue, arrived, offset, batch, marking, buckets, connected, history,
                 faults>>

Tick ==
  /\ clock < MaxTime /\ clock' = clock + 1
  /\ UNCHANGED <<queue, arrived, offset, batch, marking, buckets, connected, entitled, history,
                 turns, faults>>

\* DELETE /me/telegram-bot.
DeleteTelegramBot(u) ==
  /\ turns < MaxTurns /\ turns' = turns + 1
  /\ connected' = [connected EXCEPT ![u] = FALSE]
  /\ wanted' = [wanted EXCEPT ![u] = FALSE]
  /\ crossed' = [crossed EXCEPT ![u] = @ \/ Outstanding(u)]
  /\ UNCHANGED <<clock, queue, arrived, offset, batch, marking, buckets, entitled, written,
                 relayed, refused, unsaid, answered, failed, faults>>

-----------------------------------------------------------------------------
(* The inbox. *)

\* What Telegram still holds once it is asked for the updates from next on: they are
\* in the order of their ids.
HeldFrom(next) ==
  SubSeq(queue, Cardinality({i \in DOMAIN queue : queue[i].id < next}) + 1, Len(queue))

\* getUpdates: all that is held, oldest first; the answer may get lost on the way back.
GetUpdates ==
  /\ ~Working
  /\ queue' = HeldFrom(offset)
  /\ \/ batch' = queue' /\ UNCHANGED faults
     \/ Fault /\ UNCHANGED batch
  /\ UNCHANGED <<clock, arrived, offset, marking, buckets, connected, entitled, history, turns>>

\* The slip that takes the last handled update for the one to ask past.
NextOffsetPast(update) == update.id + 2

NextOffset(update) == update.id + 1

Take(update) ==
  /\ marking = Idle /\ batch # <<>> /\ update = Head(batch)
  /\ batch' = Tail(batch)
  /\ offset' = NextOffset(update)

\* /start: without access, or when it cannot be read, the answer is to subscribe.
Start ==
  \E update \in {batch[i] : i \in DOMAIN batch} :
    /\ Take(update) /\ update.kind = "start"
    /\ \/ entitled[update.user] /\ marking' = update.user /\ UNCHANGED faults
       \/ ~entitled[update.user] /\ UNCHANGED <<marking, faults>>
       \/ Fault /\ UNCHANGED marking
    /\ UNCHANGED <<world, buckets, connected, relayed, refused, unsaid, answered, failed>>

MarkBotConnected ==
  /\ marking # Idle /\ marking' = Idle
  /\ \/ connected' = [connected EXCEPT ![marking] = TRUE] /\ UNCHANGED faults
     \/ Fault /\ UNCHANGED connected
  /\ UNCHANGED <<world, offset, batch, buckets, relayed, refused, unsaid, answered, failed>>

\* The membership states in which the bot cannot write to the user.
Gone(kind) == kind \in {"stop", "blocked"}

\* /stop, or my_chat_member: the error of the write is dropped.
Stop ==
  \E update \in {batch[i] : i \in DOMAIN batch} :
    /\ Take(update) /\ Gone(update.kind)
    /\ \/ connected' = [connected EXCEPT ![update.user] = FALSE] /\ UNCHANGED <<failed, faults>>
       \/ /\ Fault /\ UNCHANGED connected
          /\ failed' = [failed EXCEPT ![update.user] = TRUE]
    /\ UNCHANGED <<world, marking, buckets, relayed, refused, unsaid, answered>>

\* allowSupportMessage: the messages of the last hour.
Recent(u) == SelectSeq(buckets[u], LAMBDA at : at + Hour > clock)

\* The user is told that his message did not go through; the error of that send is dropped.
Refuse(id) ==
  \/ refused' = refused \cup {id} /\ UNCHANGED <<unsaid, faults>>
  \/ Fault /\ unsaid' = unsaid \cup {id} /\ UNCHANGED refused

\* A message that is no command goes to the support chat, with its author's id in front.
\* One outage can swallow the relay, or its answer, and the refusal that follows.
Relay ==
  \E update \in {batch[i] : i \in DOMAIN batch} :
    LET recent == Recent(update.user)
    IN /\ Take(update) /\ update.kind = "text"
       /\ IF Len(recent) >= RateLimit
          THEN /\ buckets' = [buckets EXCEPT ![update.user] = recent]
               /\ Refuse(update.id) /\ UNCHANGED relayed
          ELSE /\ buckets' = [buckets EXCEPT ![update.user] = Append(recent, clock)]
               /\ \/ /\ relayed' = relayed \cup {update.id}
                     /\ UNCHANGED <<refused, unsaid, faults>>
                  \/ /\ Fault /\ relayed' \in {relayed, relayed \cup {update.id}}
                     /\ \/ refused' = refused \cup {update.id} /\ UNCHANGED unsaid
                        \/ unsaid' = unsaid \cup {update.id} /\ UNCHANGED refused
       /\ UNCHANGED <<world, marking, connected, answered, failed>>

\* A reply goes to the user its quoted header names; the send is not repeated.
Reply ==
  \E update \in {batch[i] : i \in DOMAIN batch} :
    /\ Take(update) /\ update.kind = "reply"
    /\ \/ answered' = answered \cup ({update.of} \ {0}) /\ UNCHANGED faults
       \/ Fault /\ UNCHANGED answered
    /\ UNCHANGED <<world, marking, buckets, connected, relayed, refused, unsaid, failed>>

\* /help, /support, /start support and a message without text only get an answer.
Hint ==
  \E update \in {batch[i] : i \in DOMAIN batch} :
    /\ Take(update) /\ update.kind = "help"
    /\ UNCHANGED <<world, marking, buckets, connected, relayed, refused, unsaid, answered, failed,
                   faults>>

\* The notifier restarts between two steps of the inbox.
Restart ==
  /\ Fault
  /\ offset' = 0 /\ batch' = <<>> /\ marking' = Idle
  /\ buckets' = [u \in Users |-> <<>>]
  /\ UNCHANGED <<world, connected, relayed, refused, unsaid, answered, failed>>

Next ==
  \/ \E u \in Users : Subscribe(u) \/ DeleteTelegramBot(u) \/ \E kind \in Kinds : Send(u, kind)
  \/ \E of \in relayed \cup {0} : Operator(of)
  \/ Tick \/ GetUpdates \/ Start \/ MarkBotConnected \/ Stop \/ Relay \/ Reply \/ Hint \/ Restart

Spec == Init /\ [][Next]_vars

-----------------------------------------------------------------------------
\* Once Telegram has let go of a user's updates they have had their effect, however often
\* the notifier restarted: whoever switched the notifications off last, by /stop, by
\* blocking the bot or in the settings, gets none, and whoever wrote to support was
\* relayed or told that he was not (bot_inbox.go, Run and handleUpdate).  The ways out are
\* a failed write of the switch, settings that cross updates not yet confirmed, and a
\* refusal that cannot be sent: the errors of that write and of that send are dropped.
LetGoIsDone ==
  /\ \A u \in Users :
       ~Outstanding(u) /\ connected[u] => wanted[u] \/ failed[u] \/ crossed[u]
  /\ \A id \in written :
       (\A i \in DOMAIN queue : queue[i].id # id) => id \in relayed \cup refused \cup unsaid
=============================================================================
