# TLA+ models of the WebRTC call multiplexer

TLA+ models of the two source files in this repository, checked with TLC:

- `src/webrtc/call/call.cc`: `webrtc::internal::Call`, the stream registry and packet dispatcher.
- `src/webrtc/video_engine/vie_receiver.cc`: `ViEReceiver`, the receive-side RTP/RTCP ingress of a video receive stream.

`PROJECT.json` lists the components, the runs, the mutants, which source lines each definition translates (`map`), the findings and the hazards.

## 1. Inventory

### Threads

- **Configuration thread.** Calls `Create*`/`Destroy*`, `SignalNetworkState`, `SetBitrateConfig` and `OnSentPacket`. The `configuration_thread_checker_` DCHECKs keep these calls on one thread, one call at a time.
- **Network thread.** Calls `DeliverPacket`. Its DCHECK is commented out (call.cc:604-607).
- **Any thread.** May call `GetStats` and `Receiver()` (their DCHECKs are commented out too).
- **Stream-internal threads.** The encoder and decoder threads inside streams are outside `src/`.

### Components of `Call` (call.cc)

| Component | State | Operations | Lock |
|---|---|---|---|
| Stream registry | `audio_send_ssrcs_`, `video_send_ssrcs_`, `video_send_streams_` | Create/Destroy Audio/VideoSendStream | `send_crit_` (RW) |
| | `audio_receive_ssrcs_`, `video_receive_ssrcs_`, `video_receive_streams_` | Create/Destroy Audio/VideoReceiveStream | `receive_crit_` (RW) |
| Sync resolver | `sync_stream_mapping_`, and each video stream's sync channel | `ConfigureSync`, called from the four receive Create/Destroy | under `receive_crit_` write |
| Network broadcaster | `network_enabled_` | `SignalNetworkState`; the kNetworkDown notice in Create* | `network_enabled_crit_`, then the RW locks |
| Dispatcher | none | `DeliverPacket` → `DeliverRtcp` / `DeliverRtp` | RW locks, read side |
| Bitrate governor | `config_.bitrate_config` | `SetBitrateConfig`; the constructor's `SetBweBitrates` | none (configuration thread) |
| Suspended RTP state | `suspended_video_send_ssrcs_` | merged by `DestroyVideoSendStream`, passed to the `VideoSendStream` constructor | none |
| Stats | none | `GetStats` | `send_crit_` read |

How the pieces interact:

- The registry holds non-owning pointers. `Destroy*` erases a stream under the write lock, releases the lock, and then runs `delete` on it.
- `DeliverRtp` holds the `receive_crit_` read lock from the SSRC lookup until the stream's `DeliverRtp` returns. This is the only thing that stops a packet from reaching a freed stream.
- `ConfigureSync` pairs video streams with audio streams of the same sync group through `SetSyncChannel`.
- `SignalNetworkState` walks the SSRC maps and calls `SignalNetworkState` on every stream in them.
- Audio receive streams are neither signalled on creation nor reached by the broadcast.

### Components of `ViEReceiver` (vie_receiver.cc)

| Component | State | Operations |
|---|---|---|
| Receive gate | `receiving_` (under `receive_cs_`) | `StartReceive`, `StopReceive`, the checks at lines 265 and 413 |
| RTP ingress | `last_packet_log_ms_`, the statistician and payload registry collaborators | `InsertRTPPacket` → `ReceivePacket` |
| Decapsulation | `restored_packet_`, `restored_packet_in_use_` | `ParseAndHandleEncapsulatingHeader` (RED/ULPFEC and RTX), `OnRecoveredPacket` (re-entrant), `NotifyReceiverOfFecPacket` |
| RTCP ingress / NTP | `rtp_rtcp_simulcast_` | `InsertRTCPPacket`, `RegisterRtpRtcpModules` |
| Configuration | forwarded to collaborators | `SetReceiveCodec`, extensions, NACK, RTX setters |

### What is hard

- A packet lookup racing a `Destroy*` (use after free).
- An RTX SSRC that is inserted without the duplicate check the primary SSRC gets.
- Keeping the sync pairing valid and complete across any order of audio and video create and destroy calls.
- A stream created after a network-down broadcast.
- Multi-SSRC erase loops.
- The RTP state snapshot taken on `DestroyVideoSendStream`, and the sequence numbers it must carry over.
- `GetStats` walking `video_send_ssrcs_` on another thread while `DestroyVideoSendStream` erases and deletes a stream.
- The single RTX scratch buffer under re-entrant recovery.
- Length boundaries of RTX keep-alive packets.

`PROJECT.json` `hazards` lists each one at its line.

### What makes each component correct

- **Registry.** Each SSRC map is exactly what the configs of the live streams describe. The stream sets are the live streams. A video receive stream's primary and RTX SSRC both resolve to it (spec invariants 2 and 3, and the Create/Destroy round trip).
- **Dispatcher.** No stream is used after it is deleted. A known SSRC reaches exactly its stream.
- **Sync resolver.** The recorded anchor is live and in the group. At most one video stream per group is paired, and only with the anchor. A group with both a live audio and a live video stream has one pair (spec invariants 4 and 8.3).
- **Network broadcaster.** Every signalled stream agrees with `network_enabled_` (spec invariants 6 and 8.4).
- **Suspended state.** Sequence numbers on an SSRC never repeat across a destroy and re-create (spec 8.5).
- **Bitrate governor.** A suppressed update never hides a change of the configuration.
- **ViEReceiver.**
  - The scratch buffer is never overwritten while it is being parsed.
  - A nested RTX packet is dropped.
  - The keep-alive and oversize boundaries behave as the code says.

## 2. Plan

Modules, in order of importance:

1. **`Call`** (done in this sitting). Registry, sync resolver, network broadcaster and dispatcher. It has two threads: the configuration thread's calls are atomic steps at their lock scopes, and `DeliverRtp` is split into a lookup and a delivery step.
2. **`ViEReceiver`** (done). The ingress pipeline of one video receive stream, with the network thread inserting packets and the configuration thread starting and stopping the stream. Decapsulation is written as mutually RECURSIVE operators over nested encapsulation layers (RED → packet handed on by the FEC receiver, RTX → restored packet). Each payload records the layers it was taken out of, so properties about the recursion are stated on what reaches the VCM.
3. **`VideoSendLifecycle`** (done). Creating and destroying video send streams, with an encoder thread that sends on their SSRCs, `Stop`, `GetRtpStates` and `suspended_video_send_ssrcs_`. It checks sequence continuity per SSRC and spec 8.5.
4. **`Bitrate`** (done). `SetBitrateConfig` against a congestion-controller model. It checks that suppression is sound.
5. **`CallAbstract`** (done). An abstract registry: registered streams with their configs, routing by config, and a pending delivery. `CallRefinement` shows that `Call` implements it through `INSTANCE CallAbstract WITH` a refinement mapping, checked as a PROPERTY.
6. **`CallReceiver`** (composition). `Call`'s `DeliverRtp` into `ViEReceiver` instances, checking that a `Destroy` waits for in-flight ingress.

Runs and bounds:

| Run | Status | Bounds |
|---|---|---|
| `call_receive_side` | done | 2 audio and 2 video receive addresses, SSRCs {1,2}, groups {"", "g"} |
| `call_rtx_collision` | done (violation) | |
| `call_audio_receive_network` | done (violation) | |
| `vie_receiver_decapsulation` | done | packets up to 3 layers, 1 simulcast module, 3 payloads |
| `rtx_restore_lengths` | done | header lengths {12,16}, paddings {0,1,2,12}, packets up to 30 bytes, buffer 24 |
| `call_refinement` | done | 1 audio and 2 video receive addresses, one send address of each kind, SSRCs {1,2}; also checks the network-state and registry invariants |
| `video_send_lifecycle` | done | 2 send addresses, SSRCs {1,2}, sequence numbers mod 3 |
| `video_send_release_dcheck` | done (violation) | |
| `bitrate_suppression` | done | min {0,100,200}, start {-1,0,300,500,800}, max {-1,300,500,1000} |

## 3. Module `Call`

### State

The variables carry the names of the `internal::Call` members:

- `network_enabled`
- `audio_send_ssrcs`, `video_send_ssrcs`, `video_send_streams`
- `audio_receive_ssrcs`, `video_receive_ssrcs`, `video_receive_streams`
- `sync_stream_mapping`

Stream-side state that the Call reads or sets:

- `config`: each allocated stream's `config()`, reduced to its primary SSRCs, first RTX SSRC and sync group.
- `net_state`: the last network state each stream was given.
- `sync_channel`: the audio stream a video stream was last `SetSyncChannel`ed to. `None` stands for -1.

Thread state:

- `deleting`: the configuration thread between its write-locked erase and its `delete`.
- `net`: the network thread's position in `DeliverPacket`, including whether it holds the `receive_crit_` read lock.
- `status`: the last `DeliveryStatus`.
- `recv_writer`: the configuration thread is blocked in a `WriteLockScoped` on `receive_crit_` while the network thread holds the read lock.

Stream handles are the objects' addresses. They are integers, so `std::set` iterates them in `<` order, and a freed address may be reused by a later Create.

### Actions

There is one action per public call, each a single step:

- `CreateAudioSendStream`, `DestroyAudioSendStream`
- `CreateAudioReceiveStream`, `DestroyAudioReceiveStream`
- `CreateVideoSendStream`, `DestroyVideoSendStream`
- `CreateVideoReceiveStream`, `DestroyVideoReceiveStream`
- `SignalNetworkState`
- `DestroyCall`: `~Call` (call.cc:178-193). It takes no lock and steps only when every registry is empty; otherwise an `RTC_CHECK` aborts. Afterwards `DeliverPacket` is no longer called, and once the network thread is idle the system stops (`Terminated`).

Every `Destroy*` is followed by `ReleaseStream`, the `delete` after the lock is released. `ConfigureSync` is an operator used inside the receive actions, because the code calls it inside the same locked region.

The network thread has these actions:

- `DeliverRunt`: the 12-byte check.
- `DeliverRtpLookup`: take the read lock, then look up audio and then video by media type.
- `DeliverRtpToStream`: the stream's `DeliverRtp` returns, and the lock is released.
- `DeliverRtcpToReceivers`, then `DeliverRtcpToSenders`: two read-locked fan-outs.

A receive-side `Create*` or `Destroy*` that finds the read lock held takes two steps:
1. `WaitReceiveWrite`: the thread blocks. It does so only if some receive-side call could go on once it holds the lock (`ReceiveWritePossible`).
2. `ReceiveWrite`: the call runs. `AcquireReceiveWrite` is this step taken by the call that waited.

While a writer waits, the configuration thread does nothing else. The lock is writer-preferring, as spec 5 requires ("writer-preferring or equivalent"). So `DeliverRtpLookup` and the video branch of `DeliverRtcpToReceivers` take no new read lock while a writer waits. The lock implementation (`RWLockWrapper`) is outside `src/`, so that preference is modelled from the spec.

### Preconditions and inputs

The `RTC_DCHECK`s on duplicate primary SSRCs are the client contract, so they are guards.

The RTX SSRC has no check in the code. The constant `RtxCollisions` chooses between two kinds of client:

- `FALSE`: clients respect the same contract for RTX SSRCs. The passing runs use this.
- `TRUE`: any RTX SSRC may be configured. The violation run uses this.

`RTC_CHECK`s that find nothing to erase (call.cc:330, 398) abort the process. The model gives such a call no step.

Video send streams have at least one SSRC.

### Properties

- `RegistryConsistent`: every map equals the map derived from the live configs, and the sets are the live video streams.
- `NoUseAfterFree`: the stream the network thread is delivering to is still allocated.
- `SyncBinding`: the anchor is live and in the group. At most one paired video per group, paired only with the anchor. A pair exists whenever the group has both a live audio and a live video stream.
- `NetworkStateConsistent`: audio send, video send and video receive streams agree with `network_enabled`.
- `ReceiveWriterProceeds` (in `CallRefinement`): a receive-side `Create*`/`Destroy*` blocked on the write lock eventually gets it.
- `RtxRoutesToOwner` and `NetworkStateAllStreams`: the spec's statements 8.2 and 6/8.4, checked as violation runs.

### Runs

| Run | cfg | Expect | Shows |
|---|---|---|---|
| `call_receive_side` | `MC_Call_sync.cfg` | pass | With 2 audio and 2 video receive streams in one named group, every order of create and destroy keeps the registry exact and the sync pairing valid and complete, and a concurrent `DeliverRtp` never reaches a deleted stream (387k states). |
| `call_rtx_collision` | `MC_Call_rtx.cfg` | violation | A second video receive stream configured with an RTX SSRC already in use takes over the index entry (call.cc:362). |
| `call_audio_receive_network` | `MC_Call_audionet.cfg` | violation | An audio receive stream keeps the initial "up" after `SignalNetworkState(kNetworkDown)`. |

Each property of a passing run has a mutant in `PROJECT.json`, a plausible slip in the code that TLC must catch:

- a lookup that drops the lock before the call;
- a destroy that leaves the RTX entry or a simulcast SSRC behind;
- an audio destroy that does not re-resolve the group;
- a creation that forgets the kNetworkDown notice;
- a reader-preferring lock (`DeliverRtpLookupReaderPreferring`) that lets the network thread retake the read lock while a writer waits.

### Why the bounds are enough

Two SSRCs allow the cases that matter:

- an RTX SSRC distinct from the primary;
- a simulcast stream with two entries;
- two streams sharing an SSRC value across the audio and video maps.

Two audio receive streams in one group exercise both branches of the anchor election. Two video receive streams exercise the "first in pointer order" pairing and re-pairing after destroy. The network thread's lookup can interleave with every configuration step, because its steps are enabled in every state.

### Fairness

`CallRefinement` (section 5) and `VideoSendLifecycle` (section 6) assume fairness, and only for a thread that is already inside a call. The configuration thread is a client and need not start a call. `ViEReceiver`, `RtxRestore` and `Bitrate` are checked for safety only.

## 4. Module `ViEReceiver`

### State

| Variable | Code |
|---|---|
| `receiving` | `receiving_` |
| `media_seen` | the payload registry's `last_received_media_payload_type() >= 0` |
| `ntp_synced` | the remote NTP estimator has had `UpdateRtcpTimestamp` |
| `simulcast`, `rtcp_seen` | `rtp_rtcp_simulcast_`, and the modules given the last RTCP packet |
| `net` | the network thread: idle, between the RTP gate and processing, or between the RTCP lock scope and the base module |
| `last_ret`, `last_out`, `handoffs` | the last return value, the payloads the last RTP packet handed to the VCM, and how many payloads have been handed so far |

`restored_packet_in_use_` is not a variable. It is only set inside one processing step, whose RTX part holds `receive_cs_` throughout, so it is the `inUse` parameter of the recursion.

### Packets

A packet is what the receiver learns from its collaborators:
- `Garbage`: the header parser rejects it.
- `Media(known)`: plain media, whose payload type is registered or not.
- `Red(block, addOk, inner)`: RED whose first block is media or ULPFEC. `AddReceivedRedPacket` may fail. `inner` is the packet `ProcessReceivedFec` hands to `OnRecoveredPacket`, or `None` for a FEC packet that recovers nothing.
- `Rtx(form, inner)`: a keep-alive, too long for `restored_packet_`, not restorable, or restored into `inner`.

`PacketsUpTo(d)` builds every packet of nesting depth at most `d`.

### Actions

- `InsertRTPPacketGate(p)`: vie_receiver.cc:263-268.
- `InsertRTPPacketProcess`: the rest of `InsertRTPPacket`, through `ReceivePacket` → `HandleRed` / `HandleRtx` → `OnRecoveredPacket` → `ReceivePacket`. Media payloads and the FEC notice (`FecNotice`, `NotifyReceiverOfFecPacket`) are handed to the VCM stamped by the estimator.
- `InsertRTCPPacketGate`: the lock scope with the simulcast fan-out.
- `InsertRTCPPacketBase`: the base module and the NTP estimator update. The module's return value, the RTT being non-zero and the availability of a sender report are inputs.
- `StartReceive`, `StopReceive`, `RegisterRtpRtcpModules(mods)`: the configuration thread.

The FEC receiver is outside `src/`. The model assumes that `ProcessReceivedFec` returns failure when `OnRecoveredPacket` fails.

### Properties and runs

| Run | cfg | Expect | Shows |
|---|---|---|---|
| `vie_receiver_decapsulation` | `MC_ViEReceiver.cfg` | pass | `ScratchBufferNotReentered`: no payload reaches the VCM through two RTX restorations. This covers both an RTX inside an RTX and an RTX recovered by FEC from a RED packet inside an RTX (about 700k states). |

Mutants:
- `HandleRtxNoInUseCheck` drops the `restored_packet_in_use_` test, which breaks `ScratchBufferNotReentered`.

The `receiving_` gate is an entry check (spec 4.3, step 1). A packet that passed it before `StopReceive` is still processed, which spec 5 expects, so no property forbids that. A recovered RED packet inside an RTX packet is decapsulated again, as the spec's RTX rule asks, and no property forbids that either.

Depth 3 is the least depth at which RTX → RED → RTX occurs. One simulcast module suffices because the fan-out treats modules alike. Three payloads let a FEC notice follow media, in the same packet or across packets.

## 5. Modules `CallAbstract` and `CallRefinement`

`CallAbstract` is what `Call` promises, with no SSRC maps, locks or deferred deletes:
- `streams`: the registered streams, each with its SSRCs and RTX SSRC.
- `pending`: the receive stream a packet is being delivered to.
- `network_up`: the last network state signalled.

Its actions:
- `Register`: a stream never takes an SSRC that a stream of its own kind holds.
- `Unregister`: never the `pending` stream.
- `Route(m, s)`: picks the audio receive stream whose config names `s` when `m` allows audio, otherwise the video one, otherwise nothing.
- `Deliver`: ends the pending delivery, under weak fairness.
- `SetNetwork`.

`CallRefinement` extends `Call` and maps its state onto `CallAbstract`:
- `streams` is the live streams (`Live(AllIds)`) with their configs.
- `pending` is `net.target` while the network thread is between `DeliverRtpLookup` and `DeliverRtpToStream`.
- `network_up` is `network_enabled`.

Each `Create*` maps to `Register`, the erase step of each `Destroy*` to `Unregister`, `DeliverRtpLookup` to `Route`, and `DeliverRtpToStream` to `Deliver`. `ReleaseStream`, RTCP and runt packets are stuttering steps. `MC_Call` extends `CallRefinement`, so every `Call` run can use it.

**Fairness.** `FairSpec` adds weak fairness of `DeliverRtpToStream` and `DeliverRtcpToSenders`. Once `DeliverPacket` has looked a packet up, it runs to the end of its lock scope, because the stream's `DeliverRtp` does not block (spec: nothing on the packet path blocks). It also adds weak fairness of `AcquireReceiveWrite`: a thread blocked on a free lock, where it is the only writer, is woken. Weak fairness is enough only because the lock prefers writers. Under a reader-preferring lock, the waiting writer is enabled only between two deliveries, and it would need strong fairness, which no lock gives. Nothing is assumed about packet arrival or about the configuration thread.

| Run | cfg | Expect | Shows |
|---|---|---|---|
| `call_refinement` | `MC_Call_refinement.cfg` | pass | `AbstractSpec`: every behaviour of `Call` is one of `CallAbstract`, liveness included. The same run checks `RegistryConsistent` and `NetworkStateConsistent`. With one stream of every kind, network down/up signals and creations in any order, every signalled stream agrees with `network_enabled_`, and simulcast send streams are fully de-indexed. `ReceiveWriterProceeds`: a receive-side `Create*`/`Destroy*` blocked behind packet deliveries always gets the write lock (270k states, about 85 s). |

`WaitReceiveWrite` is a stuttering step of `CallAbstract`. The mutant `DeliverRtpLookupUnlocked` releases the read lock after the lookup. A `Destroy*` then unregisters the pending stream, which `CallAbstract` forbids. One audio and two video receive addresses give audio-before-video routing and a choice between two video streams. With two addresses of each kind the run takes 3 minutes (672k states) and finds nothing new.

## 6. Module `VideoSendLifecycle`

This module covers video send streams over several lifetimes:
- `video_send_ssrcs`, `video_send_streams` and `suspended_video_send_ssrcs` are the `Call` members.
- `streams` holds each allocated stream's SSRCs, whether it is started, and the next RTP sequence number of each SSRC. An `RtpState` is abstracted to that number.
- `wire` holds the last packet sent on each SSRC: its sequence number and a bit that alternates, so that two packets carrying one number are told apart.

Actions:
- `CreateVideoSendStream` (call.cc:278-307): hands the suspended states to the new stream.
- `DestroyVideoSendStream`: four steps, since the configuration thread releases or takes a lock between them:
  - `DestroyStop` (314);
  - `DestroyErase` (316-330; an entry must exist, or the `RTC_CHECK` aborts);
  - `DestroySnapshot` (332-338; `GetRtpStates` overwrites the suspended entries);
  - `DestroyDelete` (340).
- `GetStats` (404-430), on any thread, in three steps: `GetStatsBegin` takes `send_crit_` for reading (419) and snapshots the entries to visit, `GetStatsEntry(rtt)` visits the next entry in SSRC order and keeps a positive `GetRtt()`, and `GetStatsEnd` releases the lock and returns a fresh `Stats`. The variable `stats` holds the loop's state. `CreateVideoSendStream` and `DestroyErase` take the write lock, so they wait while `stats.pc = "loop"` (`NoStatsReader`). The lock prefers writers (spec 5; `RWLockWrapper` is outside `src/`): `GetStatsBegin` takes no new read lock while `DestroyVideoSendStream` waits to erase (`WriterWaiting`).
- `StartStream` and `SendPacket`: the stream and its encoder thread, modelled from the spec because `VideoSendStream` is outside `src/`.

The constant `DchecksOn` says whether `RTC_DCHECK`s are compiled in.

| Run | cfg | Expect | Shows |
|---|---|---|---|
| `video_send_lifecycle` | `MC_VideoSendLifecycle.cfg` | pass | Four properties, over 239k states (about 20 s): `TypeOK`; `StatsReadLiveStreams`, where every entry the `GetStats` loop has still to visit points at a stream that is not yet deleted, although `DestroyVideoSendStream` deletes after unlocking; `SequenceContinuity`, where the next packet on an SSRC, from whichever stream owns it, carries the next sequence number, across destroy and re-create; and `DestroyCompletes`, where every `DestroyVideoSendStream` that began returns. |
| `video_send_release_dcheck` | `MC_VideoSendLifecycle_release.cfg` | violation | Without DCHECKs, a second stream is created on a live SSRC and both send on it (call.cc:296). With `DchecksOn = FALSE` and `FairSpec`, TLC also finds `DestroyCompletes` violated: destroying the first stream finds no entry left for it, and the `RTC_CHECK` of call.cc:330 aborts the process. The cfg therefore sets `CHECK_DEADLOCK FALSE`: the abort really stops the program. That second symptom of the same missing check is recorded in the finding, not as a separate run. |

**Fairness.** `FairSpec` assumes weak fairness of the three steps after `DestroyStop`, and of the `GetStats` loop steps. The configuration thread, once inside `DestroyVideoSendStream`, runs to its return: `Stop` is synchronous, and the write lock waits only for a `GetStats` already in its loop. That loop does not block, so it ends. Weak fairness is enough only because the lock prefers writers. With a reader-preferring lock, back-to-back `GetStats` calls would keep the erase waiting forever. TLC found exactly that before `WriterWaiting` was added.

Mutants:
- `DestroyEraseFirstOnly` erases one entry of a simulcast stream. This breaks `TypeOK`: a map entry points at a stream that is no longer registered, which `GetStats` would call.
- `DestroyEraseNoReaderWait` erases without waiting for a `GetStats` that holds the read lock. This breaks `StatsReadLiveStreams`: the loop calls `GetRtt` on the stream after `DestroyDelete`.
- `DestroySnapshotKeepOld` merges with `insert` semantics. This breaks `SequenceContinuity`.
- `CreateVideoSendStreamNoIndex` forgets the indexing loop. The destroy then aborts, which breaks `DestroyCompletes`.

Two SSRCs and two addresses allow simulcast, re-creation on one SSRC, and overlapping lifetimes. Sequence numbers mod 3 are enough to tell "next" from "repeated" or "skipped".

## 7. Module `Bitrate`

- `bitrate_config` is `config_.bitrate_config`.
- `controller` is what the congestion controller was last given.
- `requested` is what the controller would hold if every call had been forwarded.

`Init` is the constructor (call.cc:142-176); its configuration satisfies the constructor's DCHECKs (153-159): start ≥ min, and max ≥ start unless max is -1. A call to `SetBitrateConfig` may pass any triple its own DCHECKs (436-438) accept: min ≥ 0, and max > 0 unless it is -1. The spec's further rules on start are not enforced by the code, so they are not assumed. `SetBitrateConfig` (432-453) either returns early or stores the config and forwards it. `SetBweBitrates` comes from the spec (4.6): a start that is not positive leaves the start unchanged.

| Run | cfg | Expect | Shows |
|---|---|---|---|
| `bitrate_suppression` | `MC_Bitrate.cfg` | pass | `SuppressionSound`: after any calls, `controller = requested`. A suppressed call never hides a change, even though a stored non-positive start differs from the controller's start (132 states). |

Mutants:
- `MatchesStoredMinMax` drops the start comparison.

The value sets include -1 and 0 starts and an unbounded max, and they allow starts that change with min and max unchanged.

## 8. Module `RtxRestore`

`ViEReceiver` abstracts an RTX packet to the outcome of the length checks of vie_receiver.cc:352-377. `RtxRestore` computes that outcome from byte lengths. Its inputs:
- the packet length `len`;
- the header length `hdr`;
- the padding length `pad`.

Two collaborators outside `src/` are modelled from the spec:
- the parser, which accepts only `hdr + pad <= len`;
- `RestoreOriginalPacket`, which needs the 2-byte RTX header after header and padding, and copies `len - 2` bytes.

`RtxDisposition` follows the code's order:
1. the keep-alive test (353);
2. `len < hdr` (359, which the parser makes dead);
3. the size test (361);
4. restoration (368).

`HandleRtxLengths` handles one packet. It records the outcome and the bytes written to `restored_packet_`.

| Run | cfg | Expect | Shows |
|---|---|---|---|
| `rtx_restore_lengths` | `MC_RtxRestore.cfg` | pass | Two properties, over every parsed length (106 states): `RestoreWithinBuffer`, where restoration never writes past the buffer; and `MatchesReference`, where the outcome is the spec's. The spec's outcomes are: header-plus-padding is a silent keep-alive at any size; a packet carrying the sequence number that fits the buffer is restored; anything else is an error. |

Mutants:
- `RtxDispositionNoSizeCheck` drops line 361, which breaks `RestoreWithinBuffer`.
- `RtxDispositionSizeFirst` tests the sizes before the keep-alive, which breaks `MatchesReference`: a padding-only probe longer than the buffer would then be an error.

The padding 12 with header 16 gives a keep-alive longer than the 24-byte buffer. Lengths up to 30 cover the buffer size, and the 2 bytes past it that restoration could still hold.

## 9. Not modelled, and why

- **Outside `src/`, treated as collaborators:**
  - stream internals (encoders, decoders, the VCM);
  - the RTP/RTCP stack (`RtpHeaderParser`, payload registry, FEC receiver, statistician);
  - the congestion controller, `ProcessThread`, logging, tracing and the event log.
- **Configuration setters of `ViEReceiver`:** they forward to collaborators. The three `receiving_*_enabled_` flags they set are never read in `src/`.
- **The in-order check and receive statistics of `ViEReceiver`** (vie_receiver.cc:305-314, 459-481): `in_order` is computed before `ReceivePacket` and recorded after it. Both the computing and the recording are calls into the statistician, which is outside `src/`, and the spec gives only its interface.
- **`RegisterRtpRtcpModules` with an empty list** (vie_receiver.cc:159): `begin() + 1` would be undefined. The caller, outside `src/`, always passes the base module first, so the model takes the list after it.
- **A writer waiting on `send_crit_` behind `DeliverRtcpToSenders`:** in `Call`, that read lock is held only within one atomic step, so a video send `Create`/`Destroy` never waits on it there. The wait behind `GetStats` is modelled in `VideoSendLifecycle`.
- **Destroying the `Call` while the network thread is inside it** (call.cc:178): `DestroyCall` is modelled, and TLC reaches a state where `~Call` has run while `DeliverRtcp` is between its `receive_crit_` and `send_crit_` scopes (549-551). No property is checked on it. Whether a caller may destroy the `Call` while a delivery is in flight is a contract of code outside `src/`, and the spec does not state it.
- **The process thread and the voice engine reference** of the constructor and destructor: they are outside `src/`.
- **`GetStats` bandwidth figures:** reads of the congestion controller, outside `src/`. Only the RTT loop over `video_send_ssrcs_` is modelled.
- **A `CallReceiver` composition** (`Call` delivering into `ViEReceiver`): planned. The network thread calls the receiver inside `Call`'s read lock; the composition would check that a `Destroy*` waits for an in-flight ingress.
