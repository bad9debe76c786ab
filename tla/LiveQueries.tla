------------------------------ MODULE LiveQueries ------------------------------
(***************************************************************************)
(* Live queries in one thread: SchemaChannel and SchemaSubscription        *)
(* (core/src/schema/communication/broadcast.ts) carry the changes that     *)
(* saves announce, DataBridge.subscribe decides whether a change concerns  *)
(* a subscriber, and QueryableExecutor delivers the answers and keeps the  *)
(* ids of the last one.                                                    *)
(*                                                                         *)
(* One collection.  Its rows are changed by stores of this thread ("here") *)
(* and of another tab or worker ("there").  Changes are numbered; a row is *)
(* the number of the change that wrote it, and whether it matches the      *)
(* filter.  A message is handled by all listeners in one turn.             *)
(***************************************************************************)
EXTENDS Integers, FiniteSets, SequencesExt

CONSTANTS
  Ids,        \* primary keys
  Stores,     \* the stores of this thread
  Subs,       \* subscribed queries, of which some are made
  Home,       \* [Subs -> Stores]
  Filtered,   \* the subscribed queries that have a filter
  Behind,     \* how far the other thread's clock is behind, in ticks
  MaxChanges, \* bound on changes times queries made
  MaxAsked    \* bound on the queries of a subscription under way

ASSUME LiveAssumption ==
  /\ IsFiniteSet(Stores) /\ IsFiniteSet(Subs)
  /\ Home \in [Subs -> Stores] /\ Filtered \subseteq Subs
  /\ {Behind, MaxChanges, MaxAsked} \subseteq Nat

VARIABLES
  rows,    \* [Ids -> Row]: the collection
  changes, \* how many changes it has seen
  ticks,   \* now(), in this thread
  landed,  \* changes stored, not announced
  mail,    \* [Threads -> the messages posted there and not received here]
  channel, \* the registry's channel: whether it exists, and who retains it
  open,    \* the stores that are not disposed
  subs     \* [Subs -> a subscription, the executor behind it, and why what it
           \*  shows may be stale: "raced", or "lost" when something was lost]

liveVars == <<rows, changes, ticks, landed, mail, channel, open, subs>>

Threads == {"here", "there"}
Row == [v : 0..MaxChanges, in : BOOLEAN]
NoRow == [v |-> 0, in |-> FALSE]
Unread == [asOf |-> -1, rows |-> {}]

Made == {s \in Subs : subs[s].step # "none"}
Live == {s \in Subs : subs[s].step = "live"}

\* What the plugin answers a subscription's query: ids with the row they have.
Answer(s) ==
  [asOf |-> changes,
   rows |-> {[id |-> i, v |-> rows[i].v] :
               i \in {j \in Ids : rows[j] # NoRow /\ (s \in Filtered => rows[j].in)}}]

LiveInit ==
  /\ rows = [i \in Ids |-> NoRow] /\ changes = 0 /\ ticks = 0 /\ landed = {}
  /\ mail = [t \in Threads |-> <<>>]
  /\ channel = [exists |-> TRUE, count |-> Cardinality(Stores)]
  /\ open = Stores
  /\ \E made \in (SUBSET Subs) \ {{}} :
       subs = [s \in Subs |-> [step |-> IF s \in made THEN "new" ELSE "none", createdAt |-> 0,
                               asked |-> <<>>, shown |-> Unread, stale |-> "no"]]

-----------------------------------------------------------------------------
(* Changes.                                                                 *)

\* Whether the changed row itself matches: the new one, or the removed one.
Matches(i, row) == IF row = NoRow THEN rows[i].in ELSE row.in

\* A plugin stores a change.
Change(t, i, row) ==
  /\ (changes + 1) * Cardinality(Made) <= MaxChanges
  /\ rows[i] # row /\ row.v \in {0, changes + 1}
  /\ changes' = changes + 1
  /\ rows' = [rows EXCEPT ![i] = row]
  /\ landed' = landed \cup {[from |-> t, id |-> i, match |-> Matches(i, row)]}
  /\ UNCHANGED <<ticks, mail, channel, open, subs>>

\* afterPersist announces it: send creates the channel when the registry has none.
\* Another thread's message reaches a channel that is there.
Announce(m) ==
  /\ m \in landed /\ landed' = landed \ {m}
  /\ ticks' = ticks + 1
  /\ LET stamp == IF m.from = "here" THEN ticks' ELSE ticks' - Behind
         posted == m.from = "here" \/ channel.exists
     IN  mail' = IF posted THEN [mail EXCEPT ![m.from] = Append(@, [m |-> m, sent |-> ticks',
                                                                    stamp |-> stamp])]
                 ELSE mail
  /\ channel' = IF m.from = "here" THEN [channel EXCEPT !.exists = TRUE] ELSE channel
  /\ UNCHANGED <<rows, changes, open, subs>>

\* A save answered PARTIAL runs no afterPersist: what it stored is never announced.
Withhold(m) ==
  /\ m \in landed /\ landed' = landed \ {m}
  /\ subs' = [s \in Subs |-> [subs[s] EXCEPT !.stale = "lost"]]
  /\ UNCHANGED <<rows, changes, ticks, mail, channel, open>>

-----------------------------------------------------------------------------
(* SchemaSubscription.                                                      *)

Subscribe(s) ==
  /\ subs[s].step = "new" /\ Home[s] \in open
  /\ ticks' = ticks + 1
  /\ subs' = [subs EXCEPT ![s].step = "live", ![s].createdAt = ticks', ![s].asked = <<Unread>>]
  /\ channel' = [exists |-> TRUE, count |-> channel.count + 1]
  /\ UNCHANGED <<rows, changes, landed, mail, open>>

\* The last of n releases closes the pair and drops what it has not received.
Release(n) ==
  LET closed == n > 0 /\ channel.count - n <= 0
  IN  /\ channel' = [exists |-> channel.exists /\ ~closed, count |-> channel.count - n]
      /\ mail' = IF closed THEN [t \in Threads |-> <<>>] ELSE mail

\* dispose releases the channel once, however often it is called.
Dispose(gone, others) ==
  /\ subs' = [s \in Subs |-> IF s \in gone THEN [subs[s] EXCEPT !.step = "gone"] ELSE subs[s]]
  /\ Release(Cardinality(gone \cap Live) + others)

\* What a query returned when it was subscribed: unsubscribe, which may be called again.
Unsubscribe(s) ==
  /\ subs[s].step \in {"live", "gone"}
  /\ Dispose({s}, 0)
  /\ UNCHANGED <<rows, changes, ticks, landed, open>>

\* DataStore's dispose aborts its signal, to which its subscriptions and the
\* collection's own, the one that sends, listen.
DisposeStore(st) ==
  /\ st \in open /\ open' = open \ {st}
  /\ Dispose({s \in Made : Home[s] = st}, 1)
  /\ UNCHANGED <<rows, changes, ticks, landed>>

-----------------------------------------------------------------------------
(* DataBridge.subscribe.                                                    *)

\* (variant) a row's leaving is not looked for.
ConcernsByFilter(s, m) == s \notin Filtered \/ m.match

\* A change concerns a subscriber without a filter, one that was last shown the row,
\* and one whose filter the row matches.
Concerns(s, m) ==
  \/ s \notin Filtered
  \/ \E r \in subs[s].shown.rows : r.id = m.id
  \/ m.match

Raced(sub) == [sub EXCEPT !.stale = IF @ = "no" THEN "raced" ELSE @]

\* A listener's turn: messages stamped before it was created are ignored.
Told(s, letter) ==
  LET sub == subs[s]
      tooOld == letter.stamp < sub.createdAt
  IN  CASE tooOld /\ letter.sent < sub.createdAt -> sub
        [] tooOld /\ letter.sent >= sub.createdAt -> [sub EXCEPT !.stale = "lost"]
        [] ~tooOld /\ Concerns(s, letter.m) -> [sub EXCEPT !.asked = Append(@, Unread)]
        [] OTHER -> IF sub.asked = <<>> THEN sub ELSE Raced(sub)

Hear(t) ==
  /\ mail[t] # <<>> /\ \A s \in Live : Len(subs[s].asked) < MaxAsked
  /\ subs' = [s \in Subs |-> IF s \in Live THEN Told(s, Head(mail[t])) ELSE subs[s]]
  /\ mail' = [mail EXCEPT ![t] = Tail(@)]
  /\ UNCHANGED <<rows, changes, ticks, landed, channel, open>>

-----------------------------------------------------------------------------
(* QueryableExecutor.                                                       *)

\* The plugin runs a query.
Read(s, k) ==
  /\ k \in DOMAIN subs[s].asked /\ subs[s].asked[k] = Unread
  /\ subs' = [subs EXCEPT ![s].asked[k] = Answer(s)]
  /\ UNCHANGED <<rows, changes, ticks, landed, mail, channel, open>>

\* Its answer is delivered and becomes the membership of the next message, be the
\* subscription disposed or not.
Deliver(s, k) ==
  /\ k \in DOMAIN subs[s].asked /\ subs[s].asked[k] # Unread
  /\ LET answer == subs[s].asked[k]
         sub == [subs[s] EXCEPT !.asked = RemoveAt(@, k), !.shown = answer]
     IN  subs' = [subs EXCEPT ![s] =
           IF answer.asOf = changes THEN [sub EXCEPT !.stale = "no"]
           ELSE IF answer.asOf < subs[s].shown.asOf THEN Raced(sub) ELSE sub]
  /\ UNCHANGED <<rows, changes, ticks, landed, mail, channel, open>>

\* It fails: the subscriber is told, and keeps what it was shown.
Fail(s, k) ==
  /\ k \in DOMAIN subs[s].asked /\ subs[s].asked[k] = Unread
  /\ subs' = [subs EXCEPT ![s].asked = RemoveAt(@, k), ![s].stale = "lost"]
  /\ UNCHANGED <<rows, changes, ticks, landed, mail, channel, open>>

-----------------------------------------------------------------------------
Result == [asOf : -1..MaxChanges, rows : SUBSET [id : Ids, v : 1..MaxChanges]]

LiveTypeOK ==
  /\ rows \in [Ids -> Row]
  /\ changes \in 0..MaxChanges /\ ticks \in 0..MaxChanges + Cardinality(Subs)
  /\ \A m \in landed : m.from \in Threads /\ m.id \in Ids /\ m.match \in BOOLEAN
  /\ DOMAIN mail = Threads
  /\ channel.exists \in BOOLEAN /\ channel.count \in Nat
  /\ open \subseteq Stores
  /\ \A s \in Subs : /\ subs[s].step \in {"none", "new", "live", "gone"}
                     /\ subs[s].stale \in {"no", "raced", "lost"}
                     /\ subs[s].shown \in Result
                     /\ \A k \in DOMAIN subs[s].asked : subs[s].asked[k] \in Result

\* broadcast.ts, dispose: the channel of a live subscription is not closed under it.
ChannelHeldWhileHeard == Live # {} => channel.exists

Quiet(s) == subs[s].asked = <<>> /\ landed = {} /\ \A t \in Threads : mail[t] = <<>>

\* DataBridge.subscribe: once every change was announced and heard, a subscriber shows
\* the rows that match now, unless a message or an answer was lost, answers overtook
\* each other, or a message was found not to concern it while an answer was under way.
StaleOnlyByRace ==
  \A s \in Live : Quiet(s) /\ subs[s].stale = "no" => subs[s].shown.rows = Answer(s).rows

\* live-queries.md:7: a subscriber that lost no message and no answer shows, once
\* nothing is under way, the rows that match now.
LiveUnlessLost ==
  \A s \in Live : Quiet(s) /\ subs[s].stale # "lost" => subs[s].shown.rows = Answer(s).rows
=============================================================================
