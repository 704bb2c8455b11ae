# Weever Streaming: a verification project in TLA+

Weever Streaming is an SFU: publishers send WebRTC media to a server instance, which
puts the RTP on NATS; subscribers' instances take it from there and send it on.
This directory holds TLA+ models of the server's control logic, the TLC
configurations that check them, and theorems about them that TLAPS checks. Media
packets are not its subject: what is modelled is who is in a room, who is told, what
each subscriber's connection is made to carry, and what is left when an instance goes.

Paths below are relative to the repository; `publisher.rs`, `subscriber.rs`,
`state.rs`, `web.rs` and `helper.rs` are under `src/`.

Contents: 1 inventory · 2 modules · 3 runs · 4 bounds · 5 fairness · 6 proofs ·
7 what the code does not keep · 8 what is left out · 9 order, and what could follow

## 1. Inventory

| Component | State | Operations | Talks to |
|---|---|---|---|
| HTTP API (`web.rs`) | `IS_STOPPING`, server handles | `publish`, `subscribe` (validation, token, duplicate check, spawn of the main task), lists, tokens, readiness, `preStop`, metrics | shared state; spawns a session's main task and awaits its SDP answer over a oneshot |
| Publisher session (`publisher.rs`) | peer connection, `notify_close`, per-connection track counters, `is_closed` | main task `webrtc_to_nats`; handlers `on_track`, `on_peer_connection_state_change`, data channel (`STOP`, `SDP_OFFER`); RTP and PLI tasks | shared state (media count, publisher list, commands), NATS for RTP |
| Subscriber session (`subscriber.rs`) | peer connection, `notify_close`, maps `rtp_tracks`/`rtp_senders`/`rtp_forward_tasks`, bounded command channel, two flags behind two mutexes | main task `nats_to_webrtc`; handlers for state, data channel open (the *loop*) and messages (`SDP_ANSWER`, `STOP`); RTP tasks | shared state (registration, subscriber list, media count), the browser over the data channel |
| Shared state (`state.rs`) | Redis: lists, media counts and tokens per room; local: `rooms` with `pubs` and `subs` senders | add/remove/list/exist, `add_sub_notify`, `has_peers` | Redis |
| Commands (`state.rs`) | none of its own | `send_command`, `listen_on_commands` (a task per message), `forward_to_all_subs` | NATS, subscribers' channels |
| Browser library (`site/weever-streaming.js`) | its peer connection | offers first, then answers each `SDP_OFFER` | HTTP, data channel |
| Start-up (`main.rs`, `cli.rs`, `helper.rs`) | configuration | wiring; `catch` logs an error and goes on | – |

How they interact. A request spawns a main task; webrtc-rs calls that session's
handlers in tasks of their own, one call at a time per handler. A publisher's
`on_track` counts tracks in Redis and sends `PubJoin` when it has all of them; its
state handler lists it, and on the first loss removes its media, sends `PubLeft` and
takes it off the list. NATS carries a command to every instance, which puts it in the
channel of each of the room's subscribers. The subscriber's loop takes it, reads the
room's media from Redis, changes its transceivers and sends an offer; the answer comes
back to another task, which ends the round or begins the next.

What is hard, and what would make it correct:

* **Renegotiation.** Two tasks share two flags behind two mutexes, and a round spans the
  network. Rounds must not overlap; a change of the room that comes during a round must
  be looked at after it; the maps must agree with the connection; everybody must get on.
* **Publisher.** Four tasks write one session's entries, each over several awaits, while
  its connection comes and goes. `PubLeft` once; `PubJoin` only when Redis has all
  tracks; both lists in step; nothing left behind; the connection closed in the end.
* **Subscriber.** Loop, main task and state handler end independently, told by a
  notification that is not stored. Redis must follow the connection; commands must
  reach a connected subscriber; registration, loop and `preStop` must come to an end.
* **Commands.** Each goes to every instance and there to one subscriber after the other.
  None may fall between a subscriber's registration and its first look at the room, and
  one subscriber that does not take must not keep the others from hearing.
* **Rooms across parties.** What subscribers show must follow what publishers leave in
  Redis, although commands may be lost and sessions end half-way; the numbers on which
  tracks are pushed must be those on which they are pulled.
* **Shared state, instances.** Redis and the local rooms must not drift apart on errors;
  lists have times to live that must outlast their members and outlive nobody else;
  `preStop` must neither cut off a peer nor wait for nobody.
* **Ids and keys.** Encodings must be injective and fit their buffers.

The hazards are listed at their lines in `PROJECT.json`, with the properties that cover
each or why none does yet.

## 2. Modules

`PROJECT.json` maps every definition to its source lines.

* **`Tracks`** – pure operators: what `update_transceivers_based_on_room` does to the
  maps, given the media counts it read. A stream is `<<full id, kind>>`, a track
  `<<full id, kind, index>>`. `Gone` and `Missing` are the function's cases 2 and 1;
  `UpdateBroken` is the set of all results of its early returns. A publisher that lowers
  a count without reaching zero keeps its last tracks on the subscriber: the code calls
  it "case4: (not cover yet)", and `Serves` does not ask for it (`UpdateIsExact` of section
  6 says that these are all an undisturbed update leaves beside what the room has).
* **`OfferAnswer`** – the abstract specification of renegotiation: draft, build, offer,
  accept, one round at a time, so that a browser shows the room as one round found it.
* **`Follower`** – the other abstract specification of a subscriber, seen from the room:
  publishers change their streams and announce it, an announcement makes a look due, a
  look finds the streams as they are. It is what the modules about a whole room
  need to know of a subscriber.
* **`Renegotiation`** (extends `Tracks`) – one subscriber. Variables are the two flags, the
  two mutexes (by holder), a program counter for the loop and for the `SDP_ANSWER`
  handler, the maps, the channel, the data channel in both directions, and the room's
  media as publishers change it. Every await in the two tasks is a step boundary: waiting
  for a mutex, the Redis read, the changes of the transceivers, the offer. Both mutexes
  are held exactly as the guards' scopes say. `Rounds` maps it to `OfferAnswer`,
  `Subscriber` to `Follower`.
* **`PeerConnection`** – the part of webrtc-rs both kinds of session see: the state of a
  connection, and the queue of states its handler has yet to be called with. External.
* **`Publisher`** (extends it) – sessions of one room on one instance: request, main task,
  `on_track`, state handler, each with its own stage, and Redis/local/NATS effects. Ids are
  a function of sessions, so two sessions may share one.
* **`Subscriber`** (extends it) – likewise: request, registration, main task, life of the
  loop (a round is `busy`; what it does is `Renegotiation`'s), state handler, `preStop`.
* **`Sfu`** (extends `Publisher`) – a room: publishers in full, and one subscriber that is
  a `Follower`. A command that goes out makes a look due; a look finds `media`, the counts
  in Redis. `missed` remembers a command that did not go out.
* **`Streams`** (extends `Sfu`) – the RTP tasks: `on_track` starts one on a subject with the
  number of its track (`video0`, `video1`, ...), which ends after ten seconds of silence; a
  subscriber pulls 0 up to the count it found. One kind of media stands for both, which
  the code counts and numbers apart and in the same way.
* **`Broadcast`** – the abstract specification of commands: made, announced, heard at most
  once by those concerned, or found by the look at the beginning.
* **`Commands`** – any number of instances, rooms, publishers and subscribers. Variables are
  what NATS has for each instance, the forwarding task of each message (the senders it
  has cloned and the one it waits for), the channels, and where each subscriber's main task
  and loop are. `Announcements` maps it to `Broadcast`.
* **`Fleet`** – instances, the Redis they share and time. The duplicate check, the lists with
  `SADD`, `SREM` and `EXPIRE` as calls of their own, the local rooms and their removal,
  `preStop`, shutdown, and instances that are killed and started again. Time passes in
  parts of a day, while no call is under way (`Quiet`). A session is cut down to its two
  tasks and their calls of `SharedState`: the main task (spawned, negotiating, answered,
  waiting, closing, or over in one of three ways; what it does before it waits matters,
  because a notification then is not seen) and the state handler between two calls of Redis.
  Of its peer connection there is the state that the handler was last called with
  (`link`): called with "up" it adds the peer, after a loss as well, since a connection may
  come back any number of times; with another it removes the peer, a publisher only if
  `isClosed` is not set yet. `revived` says that a publisher was added after it was set.
  When the session is over, the browser may come again, to this instance or another, and
  takes over an entry of its full id that is still in the room there (`Claims`).
* **`MC...`** – names and id assignments for TLC. **`...Proofs`** – theorems;
  `AbstractProofs` holds those about `Follower` and `OfferAnswer`,
  `PeerConnectionProofs` the lemmas that publishers and subscribers share.

Definitions called `X_Something`, placed before `X`, are seeded faults: `X` as a
plausible mistake would have it. Nothing uses them; `PROJECT.json` lists, for every
property, the fault that breaks it.

Choices that a reader should know:

* `faulted`, `late`, `revived`, `deaf`, `ignored`, `missed`, `got`, `saw`, `blind`, `lost`,
  `ghosts` and `strays` are history variables: no guard reads them.
* Failures are a constant set `Faults`; a run with `Faults = {}` is a run in which Redis,
  NATS, webrtc-rs and the browser do what they are asked. A failing Redis operation may
  or may not have taken effect. `Publisher` and `Subscriber` take the write and the `expire`
  after it as one step; `Fleet`, which has the times to live, as two.
* Commands are delivered in any order, since `listen_on_commands` spawns a task for each.
* The state handler may lag behind the connection by any number of states. Whether
  `close()` waits for it is webrtc-rs's affair; assuming that it does not is the
  weaker assumption.
* Ids are model values; the `-screen` and `+random` rules appear as the sets `Own`
  (streams not to be echoed) and `Muted` (commands skipped), which differ, as they do in
  the code: `subscriber.rs:283` looks at `-screen`, `subscriber.rs:586` does not.

## 3. Runs

| Run | Question | Answer |
|---|---|---|
| `renegotiation_faults` | With everything able to fail, the subscriber a publisher too: do rounds stay apart (`OneRound`), held rounds stay awaited (`HeldRoundIsAwaited`), maps agree, and is `OfferAnswer` implemented? | yes, 954k states |
| `renegotiation_rejoin` | A publisher of two kinds leaves and joins again during rounds, offers and answers fail: is a change ever lost (`NoLostUpdate`)? Is `IInv` (with it `TypeOK`) an invariant, `Follower` implemented? Is each command followed by a new look (`ServedUnlessStuck`), does the browser end up with the room (`ShownInTheEnd`), and has it when nothing can move (`RestIsUpToDate`)? | none lost; yes, but for two named states; 53k states |
| `renegotiation_cycle` | Is every command served (`EveryCommandIsServed`)? | **no**: section 7 |
| `room_one` | One session, two tracks, failures, a disconnection, a subscriber: `LeftOnce`, `JoinIsComplete`, `RedisMatchesLocal`, `ClosedInTheEnd`, `RestIsClosed`; are the numbers a subscriber pulls those that are pushed (`StreamsMeetUnless`)? | yes; 600k states |
| `room_two` | Two sessions of one room, a subscriber: is who is up listed (`ListedWhileUp`), does a closed one leave nothing but for the named reasons (`CleanedUpUnless`)? Does the subscriber have what Redis has of both (`FollowsUnless`)? | yes; 1.4M states |
| `publisher_back` | Does a closed session leave nothing behind (`CleanedUp`)? | **no** |
| `publisher_same_id` | Is a full id published at most once (`OneLivePublisher`)? | **no** |
| `publisher_day` | Is the connection closed after 24 hours (`ClosedAfterADay`)? | **no** |
| `subscriber_one` | `RedisFollowsLink`, `HeardWhileConnected`, `DeregisteredInTheEnd`, `LoopLeavesUnless`, `DrainEndsUnless` with failures and two disconnections; is a session tidy when it rests (`RestIsTidy`)? | yes; 75k states |
| `subscriber_loop` | Does the loop end with its session (`LoopLeaves`)? | **no** |
| `commands` | One publisher, two subscribers in any order of registering, looking, taking, getting stuck and leaving: is there a gap before the first look (`NoGap`)? Is `Broadcast` implemented? Is everybody told (`ToldUnlessJammed`), and who is not, when nothing moves any more (`ToldAtRest`)? | no gap; yes; yes, unless a task is jammed for good; 320k states |
| `fleet` | A publisher and a subscriber come and come again, are lost and found, the instance is killed, drained and started again, all without a limit; setups, closes and a call of Redis fail: do lists keep who is up (`StillListed`) and lose who is gone (`ListedIsThere`, `ListsExpireUnless`, `GhostsFade`)? Does `preStop` wait for peers (`DrainSparesPeers`) and for nobody else (`DrainEndsUnless`, `RoomsHavePeers`)? | yes, but for the named reasons; 334k states |

Properties called `...Unless` state what does hold of something the code does not keep in
full: they name every exception, so that a new one would show.

The properties about what *rests* (`RestIsUpToDate`, `RestIsClosed`, `RestIsTidy`,
`ToldAtRest`; `RoomsHavePeers` in the same spirit) are the safety halves of liveness
properties. "In the end" fails either because something is for ever about to happen, which
fairness excludes, or because everything has stopped and the work is not done. The second
is an invariant: a state in which no task can take a step has done its work, or is one of
the named exceptions. Being invariants, they can be proved for every instance, which
liveness cannot. Of each, resting was compared with the negation of `ENABLED` of
the tasks' actions on the runs' instances, and they agree.

To repeat one: `tlc -config MCRoomOne.cfg MCStreams.tla`; for a proof,
`tlapm RenegotiationProofs.tla`.

## 4. Bounds

* `MaxSessions` (1 or 2 per publisher): the second session is a rejoin during a round. The
  maps remember nothing else of a publisher, so a third begins where the second did.
* `MaxCount` (1, 2 with failures): two tracks of a kind are the least that make an update
  stop half-way.
* `ChanCap` (1 or 2 for the code's 10): a full channel delays, and is reached at once.
* `MaxDrops` (0 to 2): a publisher's first loss sets `is_closed`, and what comes later
  (the way back, the close) meets it set; a subscriber's handler may be two behind. With
  no reconnection (`room_two`) the sessions still fail, stop and close, and `CleanedUpUnless`
  has no revival to excuse it; `publisher_back` has one.
* `Faults`: where two sessions interleave (`room_two`) nothing fails, and in `commands` the
  first look does not; `room_one` and the theorems have the failures. `FollowsUnless`
  is checked without failures; what `StreamsMeetUnless` needs of it, with them.
* `Total` (1 or 2 tracks): 2 make `PubJoin` wait for the second.
* Users, sessions: two, or one where the other would only add interleavings that the
  other runs have. Two are needed where one may disturb the other.
* `MaxFailures` (1, in `fleet`): the properties say nothing more of entries once a call of
  Redis has failed; a second would add nothing to them. Nothing else is bounded there: how often
  connections are lost and found, sessions come again, instances end and start.
* `Day` (2): a time to live may be half over when it is set anew; no property
  distinguishes more than full, running and over.
* One instance in `commands` and `fleet`: instances meet only in Redis and NATS, where one
  that was started again finds what its predecessor left. The theorems have any number.
* `Nat`-valued counters (`inflight`, `joins`, `sessions`) are bounded by the above; no
  run uses a state constraint or symmetry. `CHECK_DEADLOCK FALSE`: publishers and
  sessions come to an end, and a room then rests. Being stuck in the middle is what the
  liveness properties are about.

The theorems of section 6 need none of these bounds.

## 5. Fairness

Weak fairness per task: tokio runs a task that can go on, its mutexes are queues, NATS and
the data channel deliver, the browser answers an offer it got. Nothing is asked of
requests, publishers, the network, `STOP`, the 24 hour timer or failures: they may
happen or not. In `Commands` the forwarding tasks and the loops are fair, but a loop may
stop taking (`Stick`), as `Renegotiation` shows it can, or never begin. In `Fleet` time
passes (`Tick`, strongly fair: requests and tasks cannot keep a clock from going), tasks
that can go on do, and nothing is asked of requests, the network, or whoever kills,
drains and starts instances. The handler is called in the end about a connection that the main
task has closed (strongly fair: it is called with finitely many other states before, in each of
which it may be busy). A mutex is free again and again only if its holder goes on, so weak
fairness is enough: while the two tasks wait for each other no step of theirs is
enabled, and the model stops as the program does. `NoPeers` is fair because `preStop`
polls. Where a property excuses a state that lasts (`ServedUnlessStuck`,
`ToldUnlessJammed`), it is the state itself that is excused, not the fairness.

## 6. Proofs

TLAPS checks these for all values of the constants that satisfy the named assumptions
(`TracksAssumption`, `RenegotiationAssumption`, `PeerConnectionAssumption`,
`PublisherAssumption`, `SubscriberAssumption`, `CommandsAssumption`, `NobodyAssumption`,
`FleetAssumption`), any number of users, kinds and sessions, with failures.

`RenegotiationProofs`:

* `TypeCorrect`; `RoundsNeverOverlap` (`OneRound`), failures or not;
* `Invariant` (`IInv`), `NoUpdateIsLost`, `HeldRoundsAreAwaited`, `MapsAlwaysAgree`;
* `RoundsAreImplemented`: `Spec => Rounds!Spec`, failures included;
* `RoomIsFollowed`: `Spec => Subscriber!Spec`, failures included. A publisher is
  unannounced while it has changed Redis and not sent its command; a look is due while a
  command, a flag or an update under way stands for one; the streams seen are those of
  `Prospect`. `AbstractProofs` shows what follows (`AlwaysFollows`);
* `NothingIsLeftAtRest` (`RestIsUpToDate`): when the two tasks wait, nothing is on its way and
  the browser has answered, the browser has the room, but for the cycle of waits and
  the orphaned round of section 7;
* `BrowserShowsOneRoom`: the streams last offered are those the room had at one moment, and never
  a mixture, however publishers come and go during rounds; with failures, none that
  never was in the room. `past` is a history variable of the theorem: the rooms there have
  been. It is not proved of the code again, but carried over from `OfferAnswer`
  (`ShowsOneRoom`, by `PastInv`) along `RoundsAreImplemented`;
* `HalfAddedForGood` (`HalfAddedStay`), `SendersAreKnown`: what an update that fails leaves in
  `rtp_tracks` and not in `rtp_senders` no later step mends or removes, and the other
  difference never occurs. They need no invariant: `MapsNest` has them of every step, as
  only updates touch the maps (`OthersKeepMaps`), which forget just tracks that have
  senders and add just tracks that are not known (`UpdateNests`);
* `UpdateIsExact`, of `UpdateDone`: which tracks an undisturbed update leaves, and that a second
  one for the same media changes nothing.

`OneRound` is not inductive: that the loop does not begin a round while an answer is
being handled follows from `doing`, and that `doing` is set from where the round is.
`IInv` says so. `LockInv` ties each mutex to the stages of its holder. `RoundInv` puts the
round in one place: with the loop, under way as one offer of what is carried, under way
as an answer, or with the handler; `doing` is set all along. These two hold whatever
fails, and give `OneRound`. `NoFaultInv` adds, until an operation fails, that a round
begun is somewhere (so that a held one is awaited) and that the maps agree. On top of it
`NoLostUpdate` is inductive: a step that makes the connection out of date (a change in
Redis) is by an unsettled publisher; one that settles it sends a command; a command on
its way, in the channel or in the flag is a refresh due; and what uses a refresh up has
read Redis after the change. At rest (`NothingIsLeftAtRest`) two small invariants are added:
`NeedInv`, that a round is put on hold only behind one that is going on, whatever fails, so
that it is not left alone; `ShownInv`, that between two offers the browser shows what the
connection carries. `NoLostUpdate` then gives that this is the room. `Prospect` is what an update under way will make of its
snapshot. The lemmas `UpdateAgrees`, `UpdateServes` and `UpdateStreams` say what `Tracks`
computes.

`PublisherProofs`:

* `TypeCorrect`;
* `LeftIsSentOnce` (`LeftOnce`): by `LeftInv`, which says that before `isClosed` is set no
  closing has begun, and that one that has not reached the command has sent none;
* `RedisAlwaysMatchesLocal` (`RedisMatchesLocal`): by `ListInv`, which says in what way the
  two sets differ at each stage of the handler; `OthersStayAway` is the lemma that
  sessions with other ids do not touch the entries.
* `PublisherIsListed` (`ListedWhileUp`): by `UpInv`, which says where `add_publisher` is
  when the connection is up and no call is pending; a connection comes up only together
  with a call, and a call is used up only by beginning `add_publisher`;
* `ClosedLeavesNothing` (`CleanedUpUnless`): by `CleanInv`, which follows the handler from
  stage to stage, each of which removes one entry. What would put an entry back sets
  `late` or `revived`: the proof shows the list of reasons to be complete. `BackInv` shows
  that only a connection that was lost is `revived`, although the handler may be called long
  after the states came: without a loss no "connected" follows a closing state in its queue;
* `RestIsAlwaysClosed` (`RestIsClosed`): by `ClosedInv`, which says that the handler's notification
  found the main task waiting, or left it deaf;
* `JoinsAreComplete` (`JoinIsComplete`): by `CountInv`, which relates the count in Redis to
  `track_count` at each stage of `on_track`, and by `LeftInv`, since counts are removed
  only once `isClosed` is set.

`SubscriberProofs`:

* `TypeCorrect`;
* `ConnectedIsHeard` (`HeardWhileConnected`): by `HeardInv`, which says between which
  stages of the main task a session is registered, and that its connection is new before
  them and closed after them;
* `RedisAlwaysFollows` (`RedisFollowsLink`): by `FollowInv`, which says what the handler
  still has to do when no call is pending, and `UpToDate` of `PeerConnectionProofs`: the
  last pending state is the present one;
* `RestIsAlwaysTidy` (`RestIsTidy`): by `TidyInv`. Once the handler was called with the last state,
  the main task and the loop were each told of the loss, are over, or missed it; and
  a session that is over is not registered, whichever others have its full id.

`SfuProofs` (a step of a room is one of `Publisher`'s or leaves it alone, lemma `IsPublisher`,
so `RoomIsSound` carries the theorems above over):

* `SubscriberFollows` (`FollowsUnless`): by `ShownInv`. A settled session's tracks are those
  the subscriber has, or a look is due, from the last track until the session is closed,
  and again once its handler has sent `PubLeft`; in between the counts change without
  notice, and the handler is not idle. `Lasting` shows that the exceptions do not pass.
  `OwnShown` goes through a session's own steps, `OtherSession` through everybody else's;
* `StreamsTypeCorrect`, `StreamsMeet` (`StreamsMeetUnless`): by `PushInv`, which says that the
  tracks that `on_track` is through with were pushed on the numbers of their places,
  `CountInv`, which relates the same places to the count in Redis, and `SubscriberFollows`.

`CommandsProofs`:

* `TypeCorrect`; `Invariant`;
* `NothingBetween` (`NoGap`): a command that was sent is with NATS, with a task that has the
  subscriber still to come, told, or lost; one that a task passed over was passed over
  before the subscriber registered, so its first look, which comes later, found the change;
* `OnlyNeighboursJam` (`ToldAtRest`): when nothing can move, who was not told of a command comes after
  a subscriber of the same room and instance that does not take. By `NothingBetween`'s
  invariant and `WireInv` (a listener that has ended is handed nothing); that no other room
  matters is in the list of senders that a forwarding task clones;
* `BroadcastImplemented` (`ImplementsBroadcast`): a command is in one place only, so it is not
  told twice.

`FleetProofs`:

* `TypeCorrect`: also that nobody waits for more than a day, since time does not pass
  over a session whose day is over;
* `PeersStayListed` (`StillListed`): a list's time to live is at least what any of its
  members has left of its day, because each `EXPIRE` sets a full day for the whole list,
  and members are added before it. The handler's stages between `SADD` and `EXPIRE` are where
  the list may have no time to live, and where no time passes;
* `ListedAreThere` (`ListedIsThere`), `ListsExpire` (`ListsExpireUnless`): by following an entry
  from the call that makes it to the one that removes it, or to the end of its instance.
  `Stages` says when there is no such call: the handler removes whenever the connection goes
  down, except that a publisher's does so once, and a publisher that is up after that is
  `revived`. So the proof shows revival to be the one way in which a connection ends and
  leaves its name without an instance, a subscriber's main task or Redis failing it;
* `DrainsSparePeers` (`DrainSparesPeers`): while a subscriber is up it is in its
  instance's room, a publisher from `TouchAdded` on, and a room with a member is not
  removed; that holds of a connection that came back too;
* `RoomsAlwaysHavePeers` (`RoomsHavePeers`): by `Homes`, the other way round. An entry belongs to a
  session of that instance that is up, on its way out or `revived`, until the entry is
  removed, the session leaves its name behind (`strays`), or a call fails. A session that
  comes again was present where it was before only if it was `revived` (`HomesAsk`), and what
  it left there is a stray from then on.

Only model-checked: liveness (`ServedUnlessStuck`, `ShownInTheEnd`, `ClosedInTheEnd`,
`DeregisteredInTheEnd`, `LoopLeavesUnless`, `DrainEndsUnless` of both modules,
`ToldUnlessJammed`, `GhostsFade`), which is outside what the prover does; the safety halves
of all but `GhostsFade` are theorems, as named above. That resting is the negation of
`ENABLED` is model-checked too. Every safety property and every refinement of a passing run
is also a theorem.

## 7. What the code does not keep

Each is a run whose single property is violated, quoted and described in `PROJECT.json`.

1. **The cycle of waits** (`renegotiation_cycle`). The loop holds
   `is_doing_renegotiation` while it asks for `need_another_renegotiation`
   (`subscriber.rs:592`, `:600`); the answer handler does the reverse (`:657`, `:666`). A
   command that arrives just as an answer is handled can stop both for good, and the
   subscriber sees no later publisher. `LockCycle` is that state, and
   `ServedUnlessStuck` shows it and a round whose answer never comes (`Orphaned`: a failed
   `set_remote_description` or offer leaves `is_doing_renegotiation` set) to be the only
   ones. Such a loop takes no more commands, and `ToldUnlessJammed` shows what that does
   to the others: a forwarding task waits for it, and those after it in the task's
   list hear nothing of that command.
2. **Left behind** (`publisher_back`). `is_closed` is never reset, so a connection that is
   lost and comes back before it is closed is listed again and stays listed; and `on_track`
   may count a track after the counts were removed. Two ways, and `CleanedUpUnless` shows
   that (failures and shared ids apart) there is no third. `Fleet` shows what the first
   means for the others: the full id is refused until the list's time to live is over
   (`ListedIsThere`, `GhostsFade`), and the instance keeps the room, so that `preStop` does not
   end (`RoomsHavePeers`, `DrainEndsUnless`); each names this exception (`revived`).
3. **One id twice** (`publisher_same_id`). The check is at the request, the entry is made
   when the connection is up. Browsers using the library's random suffix do not meet it.
4. **A day** (`publisher_day`). `timeout(..).await?` leaves with the timeout's error:
   `close` is not called, and for a subscriber the registration stays too.
5. **The loop stays** (`subscriber_loop`). It has no timeout, the notification is not kept
   for a busy loop, a waiting one that was notified may still take a command instead
   (`select!` picks either), and its channel never closes since the loop holds the sender.

The passing properties name further ways in which things are left half-way, none of
which the documentation rules out:

* a command that NATS does not take is not sent again (`FollowsUnless`, `missed`); a session
  whose main task is over before its last track does not announce itself;
* a track whose `add_track` or forwarding failed is lost to that subscriber for as long as
  its connection lives (`HalfAddedForGood`): `rtp_tracks` keeps its key;
* a failing `add_user_media_count` leaves a track that is pushed and never pulled
  (`StreamsMeetUnless`, `faulted`);
* a killed instance's entries refuse their ids for a day (`GhostsFade`), and for ever if
  it died between `SADD` and `EXPIRE` (`ListsExpireUnless`); a member that comes and goes
  prolongs the whole list, so others' left-overs stay with it;
* `preStop` waits for ever in three cases (`DrainEndsUnless`, `Stale`): a subscriber left its
  registration behind (its setup failed, its day was over, or `close` failed), a
  publisher's connection came back after it was closed, with no failure at all, or a
  call of Redis failed. If the same full id comes to the same instance again it takes the entry
  over, and may then take it away. `RoomsHavePeers` and its theorem show that there is no other;
* `preStop` does not see a publisher that is being set up (`DrainSparesPeers`), and new
  requests are served until the servers stop.

## 8. What is left out

* The subscriber's forwarding tasks, PLI and RTCP: loops over external streams. Of the
  forwarding tasks two things might be asked. That each track on the connection has one
  holds as `tracks` and `senders` of `Renegotiation` agree (`MapsAgree`), since the task is
  made between the two insertions. That none outlives its session depends on what
  webrtc-rs makes of a write to a closed connection, of which this code shows little.
* A publisher's `SDP_OFFER` over its data channel: the library never sends one, and the
  code has "dynamic add/remove media handling" as a to-do.
* Tokens: `SET` and `EXPIRE` of a key that nothing else writes, read once at the request.
  Validation of ids and rooms: pure refusals, part of `Ask`. Metrics, probes, lists: they
  only read.
* Characters. Ids are model values. Their encodings matter in three places, two of
  which appear as constants (`Own` and `Muted`, `TooLong`); the third, a `#` in a full id,
  which splits the media key elsewhere, and a `.` in the part after `+`, which the check of
  ids lets through and which adds a level to the subject, are hazards without a property.
* The media hash's time to live: every look and every count of a track sets it to a day, so
  it is the lists, set only when somebody comes or goes, that might end too early.
* Two live sessions with one full id on two instances: `Publisher` has the case on one
  instance; `Fleet` assumes that a full id has one session at a time, the next one when no
  call of the handler of the one before is to come. So what a publisher that came back adds is
  followed until its connection ends, and then until the same full id comes again.
* In `Fleet`, which calls the handler has yet to take: they come in order and one at a time,
  and `link` says which was last. `Publisher` and `Subscriber` have the queue. Also there the
  insertion in and the removal from the local state are one step with the `EXPIRE` before
  them: it has answered, and nothing is awaited in between.

## 9. Order of the modules, and what could follow

Read `Tracks`, `OfferAnswer`, `Renegotiation`; `PeerConnection`, `Publisher`, `Subscriber`;
`Follower`, `Sfu`, `Streams`; `Broadcast`, `Commands`; `Fleet`. What could follow:

1. **Forwarding tasks** with `Subscriber`, once the behaviour of a closed connection is known.
2. **Names** – ids, keys and the encoding of commands as pure operators: injectivity, the
   64-byte buffer, `u8` counts.
3. **Renegotiation of publishers**, when the code has it.
