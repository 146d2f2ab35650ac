------------------------------- MODULE Ticker -------------------------------
(***************************************************************************)
(* The schedules of run_presence_ticker (app/app.rs) for one accepted      *)
(* contact: the reconnect backoff of an Offline one (app/reconnect.rs),    *)
(* the upgrade attempts of a Relayed one, the drain of its due queue rows, *)
(* and what restarts them: connection events and the NAT verdict           *)
(* (app/event_loop.rs), a change of the dial mode (app/app/settings.rs).   *)
(*                                                                         *)
(* Time is counted in intervals of the ticker. The contact has one         *)
(* connection at a time and no event of it is skipped: Presence has        *)
(* several, and skipped events. A drain sends its rows in one step:        *)
(* Delivery has the interleavings with the other senders of a row.         *)
(***************************************************************************)
EXTENDS Naturals, Sequences, FiniteSets, Functions

CONSTANTS
    BASE,            \* 1 interval (30 s)
    MAX_STEP,        \* 6
    CEILING,         \* 20 intervals (10 min)
    Burst,           \* {0, 5, 10}: attempts of should_attempt_upgrade that dial
    LastOfBurst,     \* 10
    Every,           \* 20: after the burst every so many of them dials
    Misses,          \* 3: failed probes in a row that end Public
    DueLimit,        \* 256: rows of the whole sync_queue one drain looks at
    Own, Others,     \* sync_queue rows for the contact, and for peers who are away
    MaxNews,         \* bound: connection events the event loop has still to handle; one
                     \* more that the ticker causes
    Scenes           \* bound: what a behaviour may contain, one of these: the queue rows,
                     \* the kinds of connection, and whether schedules are restarted

ASSUME TickerAssumption ==
    /\ BASE \in Nat \ {0} /\ MAX_STEP \in Nat /\ CEILING \in Nat \ {0}
    /\ Burst \subseteq 0..LastOfBurst /\ 0 \in Burst
    /\ LastOfBurst \in Nat /\ Every \in Nat \ {0}
    /\ Misses \in Nat \ {0}
    /\ DueLimit \in Nat \ {0}
    /\ Own \cap Others = {}
    /\ MaxNews \in Nat \ {0, 1}
    /\ Scenes \subseteq [rows : SUBSET (Own \cup Others), kinds : SUBSET {"relayed", "direct"},
                         restarts : BOOLEAN]

VARIABLES
    scene,       \* the bound of this behaviour
    link,        \* the swarm's connection to the contact
    news,        \* events of it on their way to the event loop
    known,       \* the presence map's entry
    loop,        \* what the event loop has still to do for the event in hand
    saver,       \* and update_settings for a new dial mode
    verdict, misses,   \* NatState
    backoff,     \* reconnect_backoff entry: attempts, and intervals to next_at
    upgrades,    \* upgrade_backoff entry
    ticked,      \* an interval is over and no pass has begun for it
    wake,        \* the permit of wake_notify
    pass,        \* where the ticker's pass is
    due,         \* queue rows whose next_retry_at has come, in its order
    later,       \* the other queue rows
    owed         \* history: the upgrade schedule was restarted and the contact not yet visited

netVars == <<scene, link, news>>
loopVars == <<known, loop, verdict, misses>>
tickerVars == <<ticked, pass>>
rowVars == <<due, later>>
vars == <<scene, link, news, known, loop, saver, verdict, misses, backoff, upgrades, ticked, wake,
          pass, due, later, owed>>

Kind == {"relayed", "direct"}
Row == Own \cup Others
Cap(n, max) == IF n < max THEN n ELSE max

Ready == [attempts |-> 0, cool |-> 0]

TypeOK ==
    /\ scene \in Scenes
    /\ link \in Kind \cup {"none"}
    /\ news \in Seq(Kind \cup {"upgraded", "closed"}) /\ Len(news) <= MaxNews + 1
    /\ known \in Kind \cup {"offline"}
    /\ loop \in {"idle", "forget", "flush", "direct", "offline", "clear", "wake"}
    /\ saver \in {"idle", "wake"}
    /\ verdict \in {"Unknown", "Public", "Private"} /\ misses \in 0..Misses
    /\ backoff \in [attempts : 0..MAX_STEP, cool : 0..(CEILING + 1)]
    /\ upgrades \in 0..(LastOfBurst + Every)
    /\ ticked \in BOOLEAN /\ wake \in BOOLEAN /\ owed \in BOOLEAN
    /\ pass \in {"idle", "visit", "offline", "redial", "relayed", "upgrade", "drain", "direct"}
    /\ due \in Seq(Row) /\ IsInjective(due)
    /\ later \subseteq Row \ Range(due)

Init ==
    /\ scene \in Scenes
    /\ link = "none" /\ news = <<>>
    /\ known = "offline" /\ loop = "idle" /\ saver = "idle"
    /\ verdict = "Unknown" /\ misses = 0
    /\ backoff = Ready /\ upgrades = 0
    /\ ticked = FALSE /\ wake = FALSE /\ pass = "idle"
    /\ due = <<>> /\ later = {}
    /\ owed = FALSE

-----------------------------------------------------------------------------
(* Time, the network and the senders.                                      *)

\* An interval ends. Ends that come while a pass goes on are one
\* (MissedTickBehavior::Delay).
Tick ==
    /\ ticked' = TRUE
    /\ backoff' = [backoff EXCEPT !.cool = IF @ = 0 THEN 0 ELSE @ - 1]
    /\ UNCHANGED <<netVars, loopVars, saver, upgrades, wake, pass, rowVars, owed>>

\* The contact is connected, by a dial of either side.
Connects(kind) ==
    /\ link = "none" /\ kind \in scene.kinds /\ Len(news) < MaxNews
    /\ link' = kind
    /\ news' = Append(news, kind)
    /\ UNCHANGED <<scene, loopVars, saver, backoff, upgrades, tickerVars, wake, rowVars, owed>>

\* DCUtR: a direct connection instead of the relayed one.
PunchesHole ==
    /\ link = "relayed" /\ "direct" \in scene.kinds /\ Len(news) + 1 < MaxNews
    /\ link' = "direct"
    /\ news' = news \o <<"direct", "upgraded">>
    /\ UNCHANGED <<scene, loopVars, saver, backoff, upgrades, tickerVars, wake, rowVars, owed>>

Drops ==
    /\ link # "none" /\ Len(news) < MaxNews
    /\ link' = "none"
    /\ news' = Append(news, "closed")
    /\ UNCHANGED <<scene, loopVars, saver, backoff, upgrades, tickerVars, wake, rowVars, owed>>

\* A message whose push failed (push_one), for the contact or for a peer who
\* is away.
Enqueue(r) ==
    /\ r \in scene.rows \ (later \cup Range(due))
    /\ later' = later \cup {r}
    /\ UNCHANGED <<netVars, loopVars, saver, backoff, upgrades, tickerVars, wake, due, owed>>

\* Its next_retry_at comes.
FallsDue(r) ==
    /\ r \in later
    /\ later' = later \ {r}
    /\ due' = Append(due, r)
    /\ UNCHANGED <<netVars, loopVars, saver, backoff, upgrades, tickerVars, wake, owed>>

-----------------------------------------------------------------------------
(* drain_queue_for_peer.                                                   *)

\* The rows of a query's answer that are not among these, in its order.
Without(queue, rows) ==
    LET left == {i \in 1..Len(queue) : queue[i] \notin rows}
        place(i) == Cardinality({j \in left : j <= i})
    IN  [p \in 1..Cardinality(left) |-> queue[CHOOSE i \in left : place(i) = p]]

\* Mutant: a row keeps its next_retry_at when its send fails.
SendRowsUnbumped(rows) ==
    \E acked \in SUBSET rows :
        /\ due' = Without(due, acked)
        /\ later' = later \ acked

\* Each of these rows is sent: acknowledged and removed, or bumped.
SendRows(rows) ==
    \E acked \in SUBSET rows :
        /\ due' = Without(due, rows)
        /\ later' = (later \ rows) \cup (rows \ acked)

\* due(now, 256) is a query over the rows of all peers.
DrainDue == SendRows(Own \cap Range(SubSeq(due, 1, Cap(Len(due), DueLimit))))

\* due(i64::MAX, 256), on a reconnect.
DrainAll ==
    LET room == DueLimit - Cap(Len(due), DueLimit)
    IN  \E more \in SUBSET later :
            /\ Cardinality(more) = Cap(Cardinality(later), room)
            /\ SendRows(Own \cap (Range(SubSeq(due, 1, Cap(Len(due), DueLimit))) \cup more))

-----------------------------------------------------------------------------
(* The event loop.                                                         *)

Takes(kinds) == loop = "idle" /\ news # <<>> /\ Head(news) \in kinds /\ news' = Tail(news)

\* ConnectionEstablished: presence first, ...
HandleEstablished ==
    /\ Takes(Kind)
    /\ known' = Head(news)
    /\ loop' = "forget"
    /\ UNCHANGED <<scene, link, verdict, misses, saver, backoff, upgrades, tickerVars, wake, rowVars,
                   owed>>

\* Mutant: the backoff is kept.
ForgetsNothing ==
    /\ loop = "forget" /\ loop' = "flush"
    /\ UNCHANGED <<netVars, known, verdict, misses, saver, backoff, upgrades, tickerVars, wake,
                   rowVars, owed>>

\* ... then the reconnect backoff, ...
ForgetsBackoff ==
    /\ loop = "forget" /\ loop' = "flush"
    /\ backoff' = Ready
    /\ UNCHANGED <<netVars, known, verdict, misses, saver, upgrades, tickerVars, wake, rowVars,
                   owed>>

\* ... then the outbox; also after an upgrade.
Flushes ==
    /\ loop = "flush" /\ loop' = "idle"
    /\ DrainAll
    /\ UNCHANGED <<netVars, known, verdict, misses, saver, backoff, upgrades, tickerVars, wake,
                   owed>>

\* ConnectionUpgraded: the upgrade count first, presence later.
HandleUpgraded ==
    /\ Takes({"upgraded"})
    /\ upgrades' = 0
    /\ loop' = "direct"
    /\ UNCHANGED <<scene, link, known, verdict, misses, saver, backoff, tickerVars, wake, rowVars, owed>>

\* ConnectionClosed: the same.
HandleClosed ==
    /\ Takes({"closed"})
    /\ upgrades' = 0
    /\ loop' = "offline"
    /\ UNCHANGED <<scene, link, known, verdict, misses, saver, backoff, tickerVars, wake, rowVars, owed>>

Refreshes ==
    /\ loop \in {"direct", "offline"}
    /\ known' = loop
    /\ loop' = IF loop = "direct" THEN "flush" ELSE "idle"
    /\ UNCHANGED <<netVars, verdict, misses, saver, backoff, upgrades, tickerVars, wake, rowVars,
                   owed>>

\* handle_nat_status: a probe succeeded; a verdict that changes to Public
\* restarts the upgrades.
ProbeReached ==
    /\ loop = "idle" /\ scene.restarts
    /\ verdict' = "Public" /\ misses' = 0
    /\ loop' = IF verdict = "Public" THEN "idle" ELSE "clear"
    /\ UNCHANGED <<netVars, known, saver, backoff, upgrades, tickerVars, wake, rowVars, owed>>

\* A probe failed: Private at once from Unknown, from Public after three.
ProbeMissed ==
    /\ loop = "idle" /\ scene.restarts
    /\ misses' = Cap(misses + 1, Misses)
    /\ verdict' = IF verdict = "Unknown" \/ (verdict = "Public" /\ misses + 1 >= Misses)
                  THEN "Private" ELSE verdict
    /\ UNCHANGED <<netVars, known, loop, saver, backoff, upgrades, tickerVars, wake, rowVars,
                   owed>>

\* upgrade_backoff.clear() ...
ClearsUpgrades ==
    /\ loop = "clear" /\ loop' = "wake"
    /\ upgrades' = 0
    /\ owed' = TRUE
    /\ UNCHANGED <<netVars, known, verdict, misses, saver, backoff, tickerVars, wake, rowVars>>

\* ... and wake_notify.notify_one().
Notifies ==
    /\ loop = "wake" /\ loop' = "idle"
    /\ wake' = TRUE
    /\ UNCHANGED <<netVars, known, verdict, misses, saver, backoff, upgrades, tickerVars, rowVars,
                   owed>>

-----------------------------------------------------------------------------
(* update_settings with a new dial mode.                                   *)

\* Mutant: the ticker is woken before the counts are cleared.
ApplyDialModeWakesFirst ==
    \/ /\ saver = "idle" /\ saver' = "wake"
       /\ wake' = TRUE
       /\ UNCHANGED <<upgrades, owed>>
    \/ /\ saver = "wake" /\ saver' = "idle"
       /\ upgrades' = 0 /\ owed' = TRUE
       /\ UNCHANGED wake

ApplyDialMode ==
    \/ /\ saver = "idle" /\ saver' = "wake"
       /\ upgrades' = 0 /\ owed' = TRUE
       /\ UNCHANGED wake
    \/ /\ saver = "wake" /\ saver' = "idle"
       /\ wake' = TRUE
       /\ UNCHANGED <<upgrades, owed>>

ChangeDialMode ==
    /\ scene.restarts
    /\ ApplyDialMode
    /\ UNCHANGED <<netVars, loopVars, backoff, tickerVars, rowVars>>

-----------------------------------------------------------------------------
(* The ticker's pass.                                                      *)

\* The interval's tick or the permit, whichever select! sees.
Begin ==
    /\ pass = "idle" /\ pass' = "visit"
    /\ \/ ticked /\ ticked' = FALSE /\ UNCHANGED wake
       \/ wake /\ wake' = FALSE /\ UNCHANGED ticked
    /\ UNCHANGED <<netVars, loopVars, saver, backoff, upgrades, rowVars, owed>>

\* The contact's presence is read.
Visit ==
    /\ pass = "visit" /\ pass' = known
    /\ owed' = (owed /\ known = "relayed")
    /\ UNCHANGED <<netVars, loopVars, saver, backoff, upgrades, ticked, wake, rowVars>>

\* 1u32 << step
Factor[step \in 0..MAX_STEP] == IF step = 0 THEN 1 ELSE 2 * Factor[step - 1]

\* Mutant: doubled for ever.
CooldownUnclamped(step) == BASE * Factor[Cap(step, MAX_STEP)]

\* cooldown_for
Cooldown(step) == Cap(BASE * Factor[Cap(step, MAX_STEP)], CEILING)

\* Backoff::record. The jitter, or a pass that comes to the contact sooner,
\* may cost one interval more.
Recorded(jitter) ==
    [attempts |-> Cap(backoff.attempts + 1, MAX_STEP),
     cool |-> Cooldown(backoff.attempts) + jitter]

\* Mutant: the attempt is recorded whether or not it is made.
OfflineRecordsAlways ==
    /\ pass = "offline"
    /\ pass' = IF backoff.cool = 0 THEN "redial" ELSE "idle"
    /\ \E jitter \in {0, 1} : backoff' = Recorded(jitter)
    /\ UNCHANGED <<netVars, loopVars, saver, upgrades, ticked, wake, rowVars, owed>>

\* Offline: is a redial due?
Offline ==
    /\ pass = "offline"
    /\ IF backoff.cool = 0
       THEN /\ \E jitter \in {0, 1} : backoff' = Recorded(jitter)
            /\ pass' = "redial"
       ELSE /\ pass' = "idle"
            /\ UNCHANGED backoff
    /\ UNCHANGED <<netVars, loopVars, saver, upgrades, ticked, wake, rowVars, owed>>

\* A connection the presence map does not know of is dropped; then
\* dial_with_discovery, whose outcome is for the network.
Redial ==
    /\ pass = "redial" /\ pass' = "idle"
    /\ IF link = "none" THEN UNCHANGED netVars
       ELSE /\ link' = "none"
            /\ news' = Append(news, "closed")
    /\ UNCHANGED <<scene, loopVars, saver, backoff, upgrades, ticked, wake, rowVars, owed>>

\* check_live says the connection is gone.
Demote ==
    /\ pass \in Kind /\ pass' = "idle"
    /\ link = "none"
    /\ known' = "offline"
    /\ owed' = FALSE
    /\ UNCHANGED <<netVars, loop, verdict, misses, saver, backoff, upgrades, ticked, wake,
                   rowVars>>

\* Mutant: no attempt after the burst.
ShouldAttemptInBurst(attempts) == attempts \in Burst

\* should_attempt_upgrade
ShouldAttempt(attempts) ==
    attempts \in Burst \/ (attempts > LastOfBurst /\ attempts % Every = 0)

\* Past the burst only the remainder tells.
Counted(attempts) ==
    IF attempts < LastOfBurst + Every THEN attempts + 1 ELSE attempts + 1 - Every

\* Relayed and alive: one more visit is counted, and some are attempts.
Relayed ==
    /\ pass = "relayed" /\ link # "none"
    /\ upgrades' = Counted(upgrades)
    /\ pass' = IF ShouldAttempt(upgrades) THEN "upgrade" ELSE "drain"
    /\ owed' = (owed /\ ~ShouldAttempt(upgrades))
    /\ UNCHANGED <<netVars, loopVars, saver, backoff, ticked, wake, rowVars>>

\* The dial of the attempt, or nothing more to do than to drain.
Proceed ==
    /\ \/ pass = "upgrade"
       \/ pass = "direct" /\ link # "none"
    /\ pass' = "drain"
    /\ UNCHANGED <<netVars, loopVars, saver, backoff, upgrades, ticked, wake, rowVars, owed>>

\* drain_due_for_connected_peer
Drain ==
    /\ pass = "drain" /\ pass' = "idle"
    /\ DrainDue
    /\ UNCHANGED <<netVars, loopVars, saver, backoff, upgrades, ticked, wake, owed>>

-----------------------------------------------------------------------------
Network == (\E kind \in Kind : Connects(kind)) \/ PunchesHole \/ Drops

HandleNews == HandleEstablished \/ HandleUpgraded \/ HandleClosed

GoesOn == ForgetsBackoff \/ Flushes \/ Refreshes \/ ClearsUpgrades \/ Notifies

Pass ==
    Begin \/ Visit \/ Offline \/ Redial \/ Demote \/ Relayed \/ Proceed \/ Drain

Next ==
    \/ Tick
    \/ Network
    \/ \E r \in Row : Enqueue(r) \/ FallsDue(r)
    \/ HandleNews
    \/ GoesOn
    \/ ProbeReached
    \/ ProbeMissed
    \/ ChangeDialMode
    \/ Pass

\* Time goes on, the tasks go on, no event waits behind probes for ever, and
\* a row's time comes.
Fairness ==
    /\ WF_vars(Tick)
    /\ SF_vars(HandleNews)
    /\ WF_vars(GoesOn)
    /\ WF_vars(saver = "wake" /\ ChangeDialMode)
    /\ WF_vars(Pass)
    /\ \A r \in Row : WF_vars(FallsDue(r))

Spec == Init /\ [][Next]_vars
FairSpec == Spec /\ Fairness

-----------------------------------------------------------------------------
(* What must hold.                                                         *)

\* A verdict that turns Public or a new dial mode leads to an upgrade attempt
\* at the ticker's next visit of a relayed contact: the restarted count is not
\* spent and the wake-up not lost, whatever pass is under way meanwhile
\* (clear, then notify_one; the count is bumped under the same lock).
UpgradeOwed ==
    owed =>
        /\ upgrades = 0
        /\ wake \/ loop = "wake" \/ saver = "wake" \/ pass \in {"visit", "relayed"}

\* A contact that was connected inherits no long cooldown when it goes away:
\* of all attempts recorded before, at most the one of a pass that had read
\* Offline already counts against it (reconnect_backoff.remove comes after
\* presence is refreshed).
NoStaleCooldown ==
    link # "none" /\ known = link /\ news = <<>> /\ loop # "forget" =>
        backoff.attempts <= 1 /\ backoff.cool \in 0..(Cooldown(0) + 1)

(* The inductive invariant behind it, of TickerProofs.                      *)

\* A ConnectionEstablished is on its way.
Heralded == \E i \in 1..Len(news) : news[i] \in Kind

\* A connection that is up is younger than every ConnectionClosed on its way.
InOrder ==
    link # "none" =>
        \A i \in 1..Len(news) : news[i] = "closed" =>
            \E j \in 1..Len(news) : j > i /\ news[j] \in Kind

\* Once the event loop knows of it, so do presence and the backoff.
Settled ==
    link # "none" /\ ~Heralded =>
        /\ known # "offline" /\ loop # "offline"
        /\ loop # "forget" =>
              /\ backoff.attempts <= 1 /\ backoff.cool \in 0..(Cooldown(0) + 1)
              /\ pass = "offline" => backoff.attempts = 0

\* An Offline contact is redialled again and again, however often it has been
\* tried (the ticker's Offline arm, Backoff::due).
RedialGoesOn == []<>(known # "offline" \/ pass = "redial")

\* So are the upgrade attempts of a contact that stays relayed.
UpgradeGoesOn == <>[](link = "relayed" /\ known = "relayed") => []<>(pass = "upgrade")

\* A due message to a contact that stays connected is sent, though others
\* before it fail for ever - as long as fewer than DueLimit rows wait for
\* peers who are away: those are never sent, hence never bumped, and stay
\* first in the order of due (sync_queue.rs, drain_queue_for_peer).
RowsAreTried ==
    Cardinality(Others) < DueLimit =>
        \A r \in Own :
            <>[](link # "none" /\ known = link) => []<>(r \notin Range(due))
=============================================================================
