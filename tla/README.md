# A TLA+ verification of mcpg-plugin-backend-twilio

The plugin puts three entities into one gateway process: a *backend* whose
bindings call Twilio's REST API, an *http_route* that receives Twilio's
webhooks, and a *watch_strategy* that turns inbound webhooks into
`resources/updated`. They share one in-memory `TwilioState` behind one mutex,
plus a broadcast channel. The modules here model that state, the threads that
work on it, and the REST client; TLC checks small instances, and TLAPS proves
the safety properties for every value of the constants.

Paths below are relative to `src/src/` unless they name another directory.

## 1. Inventory

| Component | State | Operations | What is hard |
|---|---|---|---|
| Watch push (`watch.rs`, `state.rs:236-307`) | broadcast channel of 1024 notices, registry of watches, the dispatcher's receiver, its snapshot | `notify_inbound`, `watch`, `cancel`, entity start and drop, the dispatcher loop | the lock covers the registry only; emits run after it is released; the channel overflows; notices come while no dispatcher listens; the registry outlives the entity |
| Live call control (`state.rs:181-218`, `tools.rs:163-178`, `webhook.rs:238-296, 368-415`) | map of staged scripts with expiry, the mutex's poison flag | `stage_call_response`, `take_script` by CallSid and by To, handler tool, fallback | two critical sections per request; deliveries of one call race; replaced and expired scripts; a timeout racing a late answer; a panic inside the lock |
| Webhook receiver (`webhook.rs`, `state.rs:159-234`) | ring of recent events, last status per SID, spawned pushes | `handle` with four routes: sms, voice, gather, status | four or five side effects per request under no common lock; stamp taken before the lock; refused requests; the ring at capacity |
| REST client (`rest.rs`, `tools.rs`) | per call: attempt number | `send_with_retry`, `list`, `list_cursor`, `classify_error` | retries of operations without idempotency; a timeout after which Twilio may still act; classification of exhausted retries; waits Twilio dictates |
| Operations and profiles (`tools.rs`, `backend_plugin.rs`) | map of profiles | `register_profile`, `execute`, 16 operations | a profile replaced under a running call; what a call relies on since registration; which sender wins; a result refused after the operation was done |
| Listing and completion (`rest.rs:142-224`, `backend_plugin.rs:194-240`, `surface.rs`) | none | `list_resources`, `complete_template_variable` | cursors that come from Twilio and outlive the binding they were got with; messages that come and go between pages |
| Templates and tool results (`webhook.rs:368-520`) | none | substitution into verbs, verbs of a tool's result | one substitution after another; what the caller sends looks like a placeholder or like markup |
| Signature (`signature.rs`, `webhook.rs:108-167`) | none | URL reconstruction, the form and the JSON variant | the text Twilio signed must be put together again byte by byte |
| TwiML (`twiml.rs`) | none | `render` of ten verbs | a field in the wrong place, or unescaped, is another program to Twilio |
| Configuration (`config.rs`), surfaces (`surface.rs`) | none | pure functions | what later steps rely on |
| Bridges (`cdylib.rs`, `lib.rs`) | the `OnceLock` with the shared state | factories, `block_on` | one state and one lock under every entity, which outlives each of them |

How they interact: `stage_call_response` (backend) fills the map that the voice
webhook empties; the webhook publishes the notices the dispatcher fans out; a
handler tool is called back by the webhook through the host and may itself
stage scripts; the gateway host creates, cancels and drops watches and entities
at any time. `PROJECT.json` lists under `hazards` what can go wrong in this, at
the line where it would.

## 2. Modules

| Module | What it is |
|---|---|
| `WatchFeed` | abstract: a best-effort, ordered, at-most-once feed that a cancel cuts off |
| `WatchPush`, `MCWatchPush`, `WatchPush_proofs` | channel, registry and dispatcher; instances; proofs |
| `ScriptLife` | abstract: a script is open, then served before it expires, or gone, exactly once |
| `VoiceControl`, `MCVoiceControl`, `VoiceControl_proofs` | staged scripts and the voice handler; instances; proofs |
| `Inbound`, `MCInbound`, `Inbound_proofs` | the four webhook handlers; instances; proofs |
| `AtLeastOnce` | abstract: what the outcome of a call permits its caller to conclude |
| `RestCall`, `RestCall_proofs` | the retry loop against an arbitrary Twilio; proofs |
| `Backend`, `MCBackend`, `Backend_proofs` | profiles and the calls that run under them, over `AtLeastOnce`; instance; proofs |
| `Gateway`, `MCGateway`, `Gateway_proofs` | the composition: `Inbound`'s handlers and several watch entities over one lock; instances; proofs |
| `Twiml`, `Signature` | operators: the renderer and the reader of its documents; what is signed |
| `Reply`, `MCReply`, `Reply_proofs` | one webhook from its bytes to its answer, over both; instance; proofs |
| `Paging`, `MCPaging`, `Paging_proofs` | `resources/list` from page to page; instance; proofs |

```
             Gateway ---- refines, per entity ----> WatchPush ----> WatchFeed
                | EXTENDS
             Inbound (side effects)     VoiceControl ----> ScriptLife
             Reply (verdict, document)  = Twiml + Signature
             Backend ---- over ---->  AtLeastOnce  <---- RestCall
             Paging (list_resources across calls)
```

Definitions whose name starts with `Slip` are the plausible bugs with which each
property was seen to fail; no next-state relation uses them.

### WatchPush

`sent` is the log of everything published. tokio's channel keeps its last
`NOTICE_CHANNEL_CAP` entries and the dispatcher's receiver is the cursor `rx`,
so `Lagging` is `rx` before the oldest entry kept. A dispatcher goes from
`starting` (spawned, not polled) through `Subscribe` to `listening`; `RecvOk`
takes a notice, `Snapshot` is `matching_emitters` under the lock, and each call
of the host's emit is an `Emit`. An agent's overflowing script may poison the lock
at any point (`StageOverflow`); a dispatcher with a notice in its hands then panics
in `matching_emitters` (`Die`), which drops its receiver and all that is queued in
it, and leaves its entity and the watches as they were. `Watch` and `Cancel` may come between any two
of these. `DropEntity` sends on `stop_tx`, and `Exit` is the select's stop
branch, or the runtime dropping the task before or between polls. An `Emit` is
not preempted by `Exit`: `dispatch` has no await. The state outlives the entity
(`cdylib.rs:40-45`), so `StartEntity` may follow `Exit` with the watches still
registered. Here at most one entity is alive at a time; overlapping ones are
`Gateway`'s. `since`, `until` and `lost` are history, read by no guard; `lost` holds
what no dispatcher will receive any more: what came while none listened, what a
full channel dropped, what one that ended or died left behind.

### VoiceControl

A request goes through `record`, `notify`, `take_sid`, `take_to`, `tool?`,
`await` and ends in a reply. The three steps that take the lock are one action
each, and other threads act in between. `staged[k]` is the position in
`stagings` of the script filed under `k`. `StageCallResponse` inserts, replacing
what was there; `TakeScript` removes whatever is there, and serves it only if
it is fresh. `INSTANT_MAX` is the platform's last `Instant`: beyond it
`StageScript` panics with the lock held and sets `poisoned`, after which the
lock's other users panic (`PanicOnLock`). A handler tool's end (`ToolAnswers`)
races `ToolTimeout`; an abandoned tool ends later (`ToolEndsLate`) or never.
Scripts a tool stages, also after it was abandoned, are the agents' `StageCallResponse`.

### Inbound

`pc` walks a request through `status` (callbacks only), `stamp`, `record`,
`notify`, `push` and `reply`, the steps depending on its kind as in the four
handlers: `gather` has no notice, `gather` and `status` no push. `Stamp` is the
evaluation of `Instant::now()` in the argument of `record_event`, before the
lock. `PushTask` is the spawned POST. `recorded` and `written` are history. The
signature's verdict is the choice between `Refuse` and `Accept`; what it is in
each case is `Reply`. A panic on a poisoned lock is `Gateway`'s.

### RestCall

One call is the loop of `send_with_retry`: `Send`, then one action for each way
an attempt may end. `Twilio` answers an attempt at any time, also after
the client gave it up, and decides whether it took effect: never with a 4xx or
429, always with a 2xx, either way with a 5xx. An attempt never answered took no
effect. `spent` adds up what attempts and waits took. `via` tells the calls
through `list`, whose tool errors become transport errors, from those through
`map_rest`.

### Backend

`registrations` is the log of everything `register_profile` accepted; `profiles`
maps a name to the position of the one in force, so that a position stands for
the `Arc<Profile>` a call cloned. `Call` is the host's call and `Found` or
`Missing` its lookup; registrations come in between and after. `since` remembers
the length of the log when the call was made. A specification, and the arguments
of a call, are records of the fields that decide something; `form` is the verdict
on all the others. `dispatch` is one step: `Refuse`, `RunLocal` or `SendRequest`;
the answer is `RestOk` or `RestError`, and `Shape` comes last, as in `execute`.
A REST request is an operation of `AtLeastOnce`: `SendRequest` issues it, `Effect`
is Twilio carrying it out, on any occasion of `Tries`, also after the call
returned, and `RestOk` and `RestError` are the contract's outcomes. Since
`RestCall` is proved to implement that contract, what holds here holds with the
retry loop in its place. `done` is for operations without a request. What
`stage_call_response` does to the shared state is VoiceControl's.

### Gateway

`Gateway` extends `Inbound` with the lock's poison flag, the watches and any
number of watch entities, each with a receiver, a snapshot and a `stop_tx` of
its own, over the one log of notices and the one registry. `StageOverflow` is
the panic of `stage_script` under the lock (`state.rs:188`), found by
`VoiceControl_poison`. From then on `TakesLock` tells which steps of a handler
panic (`PanicOnLock`: where it stands, with what it has done so far) and which
go on: `notify_inbound`, `maybe_push` and a reply that looks nothing up take no
lock. A call with a `To` but no `CallSid` looks up its `To` only; as `Inbound`
does not have the `To`, such a call may do either (`MayTakeLock`). A dispatcher panics in
`matching_emitters` (`Die`), and its entity stays. `watch` and `cancel` panic
and change nothing, so they need no action there. `audience` records who
listened when a notice was published and `missed` what an entity will never
receive, what a task that died left behind included.

### Twiml, Signature and Reply

A text is a sequence of tokens: each character that is markup somewhere is a
token, other runs of characters are too, and so are the pieces an operator may
write (a placeholder) or an encoder (`%20`). `RenderVerb` follows `render_verb`
branch for branch. `Feed` is an XML reader that knows nothing of verbs: what the
properties say of a document they say of what this reader makes of it. A verb is
any record of its variant's fields (`Leaf`, `Gathers`), a `<Gather>` nests verbs up
to `MAX_NESTING` deep, and `Rendered` and `Reading` are recursive functions, so that
proofs can unfold them. HMAC and SHA-256 are ideal. `Reply` takes one request through `Refuse`,
`HandleWithoutDocument` or `Handle`, then the sources of verbs in their order:
`TakeScript`, `RunHandlerTool`, `Template`. What is staged and what a tool
returns is any of `Scripts` and `ToolResults`. `authored` keeps the verbs as
their author wrote them, `asked` what a tool was told was captured.

### Paging

`Ask` is a client's `resources/list`, which looks its profile up; `Page`, `Fail`
or `EmptyPage` is its answer. `Requested` is the collection asked for: `list`
has the account of the profile in its URL, `list_cursor` follows the path it is
given (`rest.rs:202`), whose account is that of the first page. A message is
its rank by age; what Twilio may answer (`PagesOf`) is any run of the newest
below the mark, never empty while there is one. `NoSid` are the records
`messages_to_resource_page` leaves out. Registrations, sends and deletions come
between any two steps. `began`, `steady` and `cut` are history.

## 3. Runs

Passing runs:

| Run | Instance | Shows |
|---|---|---|
| `WatchPush_safety` | 2 watches, 2 kinds, capacity 1, 3 notices, a poisoned lock at any point | `NoSilentLoss`, `LostOnlyByOverflow`; `WatchPush` implements `WatchFeed` |
| `VoiceControl_safety` | 2 requests, 1 call, 1 number, 2 scripts, clock to 2, fairness, a tool that may hang | `ServedOnce`, `Accounted`, `StageThenCall`, `ServesNewest`; `VoiceControl` implements `ScriptLife`; `EveryCallEnds`: every request that began is answered, or panicked on a poisoned lock |
| `Inbound_safety` | 3 requests, 1 SID, 2 statuses, ring of 2 | `RecentIsSuffix`, `AnnouncedIsReadable`, `StatusTraced`, `RefusedLeavesNoTrace`, and the inductive `IInv`: which kind of request leaves what |
| `Gateway_safety` | 2 requests, 1 watch, 2 entities that may overlap, channel and ring of 1, a poisoned lock at any point | `TickIsReadable`: a watch is told only of what can be read, of a kind it asked for; `ToldByListeners`; `PanicLeaves`; the inductive `GatewayInv`; each entity implements `WatchPush` |
| `Gateway_liveness` | 2 calls, 1 entity, a watch of every kind, channel of 1, fairness | `EveryRequestEnds`, on a poisoned lock too; `EveryNoticeTicks`: a watch of every kind gets a tick for a notice or a later one, however far the dispatcher lags |
| `Reply` | 6 configurations, 5 paths, 4 queries, 9 bodies, 5 signatures, 29 lists of verbs, 6 tool results | `RefusedUnlessSigned`, `ReadsAsConfigured`, `ExecutedAsAuthored`, `NothingLost`, `CapturedIsEntered` |
| `RestCall_contract` | 1 call, 2 retries, timeout 2, waits 1 and 3, fairness | `RetryJustified`, `DuplicateOnlyAfterFault`, `ResponseBound`; `RestCall` implements `AtLeastOnce`; `CallReturns` |
| `Backend_safety` | 1 call, 2 names, 7 specifications, 3 arguments, 3 registrations, a request that may take effect twice | `NoStaleProfile`, `NotFoundMeansNever`, `ValidatedAtRegistration`, `ReportedTruly` |
| `Paging` | 2 accounts, 4 messages each, pages of 2, fairness | `NewestFirst`, `Complete`, `OneAccount`; `TraversalEnds` |

Some invariants are proved (section 4) and not checked by a run: the type
invariants of the modules other than `Reply`, the inductive invariants of the modules
other than `Inbound` and `Gateway`, and what the refinements imply (`InOrder` and `CancelCutoff` of
`WatchPush`, `OkMeansDone` of `RestCall`; `EntityFeeds` and `EntityLosses` of `Gateway`).

Runs that end in a violation, each against what the repository says of itself:

| Run | The statement | What the code does |
|---|---|---|
| `VoiceControl_poison` | `state.rs:161`: `.expect("twilio state poisoned")` | a huge `ttl_secs` overflows the expiry inside the lock and poisons the shared state |
| `RestCall_5xx` | `src/README.md:98-99`: 5xx "surface as `BackendError`" | a 5xx left after the retries is a tool error |
| `Backend_sender` | `tools.rs:184`: "arg overrides config default" | a configured messaging service wins over a `from` argument |

Behaviour the models have and no run is spent on, against what is written or
less clearly so:

- `watch.rs:126-127`: after a lag "the client re-reads on the next tick". A watch
  filtered to the dropped kind gets no next tick when what the channel retained,
  and what comes later, is of other kinds. `EveryNoticeTicks` is about a watch of
  every kind.
- `state.rs:173`: the ring is "newest last". The stamp is taken before the lock
  (`webhook.rs:208`), so that two concurrent deliveries may be recorded in the
  opposite order of their stamps.
- One emit may follow a cancel that came after the dispatcher's snapshot
  (`watch.rs:158-165`; what holds is `CancelCutoff`, a theorem).
- After one panic under the lock every dispatcher dies at its next notice and
  every handler panics, until the process ends; each watch entity alive at a
  time tells a watch of the same notice.
- A gather turn is recorded and not published, though `src/README.md:123-125`
  says that recording "also publishes an in-process `InboundNotice`"; status
  callbacks and gather turns are not pushed (`config.rs:305-306` speaks of any
  recorded event); a gather turn whose tool fails is rejected, whatever default
  verbs are configured (`src/examples/README.md:77-82`).
- `webhook.rs:108-109`, `signature.rs:6-7`: the URL is signed with the "raw query
  string (as received)". The code writes the parsed query anew, with
  serde_urlencoded's `+` for a space, so a genuine request with `%20` in its
  query is refused. `RefusedUnlessSigned` states that limit, and the run has such a
  request. It has a reverse side, which no run of requests Twilio makes would show
  and the proof did: with a base that is not the gateway's, or such a query, what is
  accepted is a header made with the token for the URL as it was put together.
- `webhook.rs:502` speaks of a verb's "text/url fields": a URL is not
  substituted, nor what is nested in a `<Gather>`; and only `From`, `To` and `Body`
  are, not the `${CallSid}` of `src/examples/README.md:71-72`. One key is put in after
  the other, so that a placeholder in what `From` or `To` holds would be replaced in
  its turn.
- Two destinations of a `<Dial>` are accepted and all but the first dropped
  (`twiml.rs:189-198`: "exactly one is expected"), inside a `<Gather>` too; a dial with
  an empty number reads like one with no destination.
- A list fetches one page and does not accumulate (`rest.rs:142-143`,
  `src/README.md:45`).
- A rejection is a tool error, but through a list it is a transport fault
  (`rest.rs:9-12`); completion lists messages for any binding with a REST client
  (`backend_plugin.rs:220-221`).

### Bounds, and why they are enough

- Notices: `MaxNotices` bounds what is published, nothing else. With a capacity
  of one, three notices overflow the channel twice, and with two watches one
  snapshot holds both while either is cancelled.
- Scripts and clock: `MaxScripts` and `MaxNow`. Two scripts meet under one key or
  two; a time to live of 1 expires within the clock's range and one of 3
  outlasts it, and at the clock's last value overflows `INSTANT_MAX`. Two requests
  are two deliveries of one call.
- Requests: each happens once, so the set bounds everything. Three requests
  overflow a ring of two. One SID is where status callbacks conflict.
- Calls share nothing, so one is enough; retries and waits have their real shape.
  `MAX_RETRIES` is the code's 2. One wait (3) is above and one (`BACKOFF`) below
  the timeout.
- Backend: calls meet only in the map, which they do not write, so one call is
  enough. Of three registrations one may precede the call, one come before its
  lookup and one after. The specifications differ in all that a step tells apart.
  Two `Tries` let a request take effect before and after its call returned.
- Gateway: each request, registration and entity happens once, so the sets bound
  everything. Two entities are what it takes to overlap, or to follow each other;
  two requests overflow a channel and a ring of one, and let one thread panic
  where another stands. The arrivals are a call and a callback, which a watch asks
  for, and an SMS, which it does not; the rest is `Inbound_safety`'s.
- Reply: inputs, not steps, are what is bounded. They hold every verb, every
  field present and absent, each predefined entity in text and in attributes, a
  value that looks like an entity and one that looks like a placeholder; each of
  the ways a signature is wrong; slashes after the base and another base; both
  orders of parameters; a `<Gather>` in a `<Gather>`, the depth `MAX_NESTING` allows
  here. 21,261 distinct states. No form has a key twice: of such a key the handlers read the first pair
  (`webhook.rs:522-528`) and the tool gets the last (`webhook.rs:380-382`).
- Paging: `MaxMessages` bounds what is sent to each account. `MaxPages` is never
  reached: a page that is not the last has a message older than all before it. Pages of two
  are full, short or the last; one message has no sid.
- Symmetry: watches, requests, entities and profile names, in runs without a
  liveness property only. The view of `Inbound_safety` drops the clock and the
  stamps; that of `Gateway_safety` drops also `since`, `until` and `missed`: no guard
  and no invariant of these runs reads them, and a step only adds to what they were.
- Deadlock is checked for `WatchPush`, where the host can always act until the
  bound. Elsewhere the work is finite and the system comes to rest.

### Fairness

- `Gateway`: weak fairness of each handler, which runs on a thread the host gave
  it, and of each dispatcher, whose runtime has a worker of its own
  (`watch.rs:109-114`) and whose emits are assumed to return. That nobody waits for
  the lock for ever is not assumed but modelled: a poisoned lock is not a held one.
  Agents and the host owe nothing. `WatchPush` needs none.
- `VoiceControl`: weak fairness of a request that began, its timer included.
  Requests need not come, tools need not end, agents need not stage.
- `Inbound`, `Backend` and `Reply`: none.
- `RestCall`: weak fairness of what the client does alone: sending, waking up,
  timing out. Twilio and the network owe nothing, not even a broken connection.
- `Paging`: a client that is not through asks again, and a call of `list_resources`
  ends (`CallReturns`), with a page or without. `TraversalEnds` leaves the case open
  that calls fail for ever.

## 4. Proofs

Every safety property of a passing run, and the refinements,
are theorems of the specification, for all values of the constants. The
assumptions: the channels and the ring hold at least one entry (`CapAssumption`,
`ChannelAssumption`, `RingAssumption`; `state.rs:38, 144`), a page has at least one record (`PageAssumption`),
CallSids and numbers are distinct keys (`KeyAssumption`; `ScriptKey` is an enum),
times are natural numbers (`TtlAssumption`, `TimeAssumption`), `MAX_RETRIES` is a
natural number, `None` and an empty cursor are no values (`NoneAssumption`),
specifications and arguments have their fields (`SpecAssumption`,
`ArgAssumption`). Those of `Reply` say what a request and a configuration are:
types (`ConfigTypes`, `RequestTypes`, `VerbTypes`, `SortedKeysAssumption`); that
`validate` passed the configuration (`ConfigAssumption`); that Twilio sends each
parameter once and numbers, which hold no placeholder, as `From` and `To`
(`TwilioAssumption`); that no `?` comes before a query (`UrlAssumption`: `validate`
does not look for one in `public_base_url`, and with one there a query could be
moved into the base); and that a `<Gather>` nests up to some depth, which is any
natural number (`NestingAssumption`: the code has no limit, a list of verbs a depth). Sets of
watches, entities, requests, keys, accounts and calls may be infinite.

- `WatchPush_proofs`. The properties are not inductive: that a tick is later
  than the ones before it needs the cursor to be past everything emitted, and
  the cut-off of a cancel needs every emitter still in the snapshot to have been
  live when its notice was published. `DispatchInv` says both. `Ordered`,
  `CancelIsCutoff` and `LossAccounted` are proved on top of it, `LossIsFinal` says
  that what is counted as lost cannot be on its way any more, so that the account of
  `LossAccounted` is exact, and
  `Refinement` maps `Emit` to the feed's `Tick` and every other dispatcher step
  to a stutter.
- `VoiceControl_proofs`. `StageThenCall` speaks of answered requests, so the
  induction needs what a request has established at each earlier step
  (`LookInv`): once it has looked under a key, a script staged there before it
  came is served, replaced or expired, and stays so. `MapInv` says
  that a filed script is the newest of its key and unserved, from which
  `ServedOnce` and `ServesNewest` follow. `Refinement` maps `TakeScript` to
  `Serve`, `Expire` or a stutter.
- `Inbound_proofs`. `HandlerInv` ties the place of every handler, and the kind of its
  request, to what it has left in the ring's history, the notices, the statuses and
  the pushes: a gather turn is in no notice, and only messages and calls are pushed.
  `Readable` combines it with `RecentIsSuffix`.
- `RestCall_proofs`. `ViewInv` says that what the client saw of an attempt is
  what Twilio did, and that an attempt not sent did nothing; `SpentInv` is the
  arithmetic of the bound. `Refinement` maps the client's return to the
  contract's outcomes and Twilio's action, also a late one, to `Effect`.
- `Backend_proofs`. `MapInv` says that the map holds, per name, its last
  registration, from which a lookup's answer follows; `OnlyValid` that all of them
  passed `validate`, so `ValidatedAtRegistration` holds of what a call holds,
  whatever its arguments; `CallInv` where a call stands; `DeedInv` what its request
  has done by then, which `ReportedTruly` needs: an effect may come late, but never
  to a request refused or not made, and `Ok` is not said before one. The steps of
  a call fall into a few kinds (`StepCases`), none of which touches the map.
- `Gateway_proofs`. `GatewayIsInbound` shows that every behaviour of the gateway is
  one of `Inbound`, so that `Inbound_proofs` is not done again: panics and the lock only
  take steps away from it. `GatewayInv` adds what a request has left behind at each place
  (`TraceInv`) and what a dispatcher may hold (`EntityInv`): everything an entity
  will still receive was published while it listened, from which `ToldByListeners`
  follows, and a status callback of which there is a notice has written, from
  which `TickIsReadable` does. `EntitiesArePushes` maps each entity to
  `WatchPush`, `StageOverflow` and `Die` to the push's own, `missed` to its `lost`, and
  the handlers' and the other entities' steps to `NotifyInbound`, to the host's or to
  stutters.
  With it what `WatchPush_proofs` shows of a push is shown of every entity of the
  gateway: `EntityFeeds`, that it implements `WatchFeed`, and `EntityLosses`, that a
  notice is told, on its way in a dispatcher that is alive, or missed for good, a
  dead dispatcher's whole queue and all that comes after it included. Theorems of an
  instance can be cited only if it has no parameters, so `entity` is a constant there,
  any one of `Entities`.
- `Paging_proofs`. `CursorInv` relates the pages to the cursor's mark: all that is listed is at
  or above it, and all that was there and is at or above it is listed. A page ends
  at the next mark or at the end, so that `NewestFirst` and `Complete` follow, for any page
  size and whatever happens in between.
- `Reply_proofs`. The machine has no loop and `IInv` is small: what was answered was
  rendered from what was authored, by the source that says so; a refusal is what
  the signature's check says; a tool was asked with what was captured. It is
  inductive, while the properties are not: `ExecutedAsAuthored` says nothing of how a
  document came about, nor `RefusedUnlessSigned` of a request that is still to be looked at.
  What the properties then say is about what `render`, `Substitute` and
  `CheckSignature` compute, for data of any size. It is proved from the bottom up.
  - *Induction.* The library's induction theorems take predicates, which the provers
    cannot instantiate. `LeastNat` takes its least element from `WFMin`, and
    `SetInduction` and `SeqInduction` say that a *set* with `0` and successors, or with
    the empty sequence and appendings, is everything: a lemma names the set.
    `FlattenSeq` is taken apart by `FlattenAppend` and `Spread` by `SpreadAppend`.
  - *Reader and renderer.* `Takes` says of a part of a document that the reader, at
    whatever path and after whatever nodes, has certain nodes more afterwards and is
    where it was; `TakesConcat`, `TakesText`, `TakesAttr` and `TakesElement` build it up
    from one escaped token to a verb, and `RenderedAlwaysOk` to any nesting. From it
    come that a document is well formed, which nodes it has
    (`ExecutedAsAuthored`), and what changes when the texts do (`ReadsAsConfigured`):
    that three substitutions, one after another, do what one would at once
    needs `TwilioAssumption`.
  - *Injectivity.* What a document is read as gives back the verbs, attribute by
    attribute, since their names differ, destination by destination and nested verb by
    nested verb, by induction on the depth: `NothingLost`.
  - *Signature.* `SortByKey` puts any order of parameters into the one order of their
    keys, and a URL parts at its first `?`, so that equal data come from an equal base
    and query: `RefusedUnlessSigned`. As it stood first, the property was
    false, and the attempt to prove it showed where: see section 3.

Left to TLC: the liveness properties (`EveryNoticeTicks`, `EveryRequestEnds`,
`EveryCallEnds`, `CallReturns`, `TraversalEnds`), which need fairness and
ENABLED, beyond this prover, and the violations.

## 5. Not modelled

- The parsing of single configuration fields and tool arguments, and the JSON
  bodies of resources and prompts: mappings without a decision; their verdict is
  `form` in `Backend`.
- The schemas of tools and of TwiML verbs: constants.
- The FFI bridges, which only forward, and what the host does with a panic that
  reaches it. `Gateway` ends such a thread.
- The payload of a tick: `notice_event` copies a notice. Which notice it is for
  is modelled.
- HMAC, SHA-256 and base64, and that the comparison takes constant time.
- Completion beyond its gate and its one page: a filter by prefix.
- Logging and metrics; `sweep_expired`, `event_count`, `staged_count` and
  `watch_count`, which only tests call.

## 6. Plan

Done, in the order of their importance to the system: the push, call control, the
receiver, the REST client, the backend's profiles, the gateway that puts the first
three over one lock, the backend over the contract of the REST client, paging,
and the answer to a webhook from its signature to its document.

Left, in this order:

1. The staged map inside `Gateway`: there `take_script` only takes the lock, and
   `VoiceControl` has the map without the other handlers. One module with both
   would show that a poisoned lock serves no script half.
2. Several clients of `Paging` under one binding, and several names.
3. The lag of a filtered watch as a property of its own: what a client that
   re-reads on any tick, of whichever watch, knows after one.
