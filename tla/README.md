# A verification project for codex-vault

codex-vault keeps the state of the Codex command line tool in password-protected profiles. A
profile is a directory with a manifest (a random data key, wrapped by a key derived from the
password) and an archive of the Codex home, encrypted under the data key. `codex-vault run` unlocks
a profile into a temporary plaintext directory, runs Codex there, seals the result and removes the
plaintext. A separate daemon, `codex-vaultd`, so far answers status queries on a Unix socket.

This directory holds TLA+ models of the program, TLC configurations that check them on small
instances, and proofs that TLAPS checks for every instance. Paths below are relative to the
repository; `store.rs` means `src/store.rs`.

## 1. Inventory

| Component | State it keeps | Operations | What is hard | What makes it correct |
|---|---|---|---|---|
| Profile store (`store.rs`, `archive.rs`) | profile directories with `manifest.json` and `state.cvlt`; the lock on `active.lock`; plaintext runtime directories | `add_user`, `rotate_password`, `unlock`, `close`, `list_users` | several processes on one profile, a kill at any step, each file operation may fail, renames that a power loss takes back | one session at a time; no acknowledged edit lost; every version on the disk opens; a retired password stays retired; no plaintext after success |
| Session runner (`runner.rs`) | the Codex child, the result of the call | `run_program` | launch and forwarder failures after the unlock, a panic while Codex runs, order of the errors | each way out seals, removes and releases, except the panic of `thread::spawn` (`runner.rs:107`), which removes and releases unsealed while Codex goes on |
| Signal forwarder (`runner.rs`) | the child's process id, a thread | `start`, `stop` | a signal after the child was reaped, or before the thread runs | signals reach the child they are for, and no other process |
| Daemon socket (`daemon.rs`) | the path of the socket, its inode | `bind_listener`, `remove_stale_socket`, dropping `SocketGuard` | check-then-act on a path that other daemons change | a daemon that serves is reachable; only one's own socket is removed |
| Daemon loop and client (`daemon.rs`) | the connection being served, the stop flag | `serve_daemon`, `handle_connection`, `query_daemon_status` | one thread, time-outs, silent clients | a bounded wait; a healthy daemon answers |
| Framing (`daemon_protocol.rs`) | none | `write_message`, `read_message` | partial delivery, lengths at the limit | what is read is what was written, or an error |
| Encrypted stream (`crypto/vault_stream.rs`) | frame counter, nonce seed, buffer | `write`, `finish`, `read`, `verify_finished` | reordering, truncation, counter overflow | only the whole stream is accepted, and a nonce is used once |
| Manifest, key derivation and wrapping (`manifest.rs`, `crypto/kdf.rs`, `crypto/key_wrap.rs`) | none | `validate`, `associated_data`, `wrap`, `unwrap` | an ambiguous encoding of the header | a changed header does not unwrap |
| Runtime roots (`config.rs`) | none | `select_runtime_root`, `prepare_runtime_root` | candidates and fallbacks | an explicit root is used or refused, never replaced |
| Command line (`main.rs`, `bin/codex-vaultd.rs`) | none | parse, prompt, print | - | - |

How they interact: the command line calls one operation of the store or the runner per process;
processes meet only on the disk, on the profile lock and, through the Codex child, in the runtime
directory. The store calls the archive, which writes through the encrypted stream; `unlock` asks
`config.rs` for a runtime root. The daemon shares only the error type and the directory checks.

`PROJECT.json` lists each hazard of the code at its line, with the properties that cover it.

## 2. Plan

The modules, in the order of the importance of what they model. All of them are written, checked and
proved about as far as sections 3 to 8 say.

1. `AbstractVault`, `VaultStore`, `VaultStoreProofs`, `VaultPromisesProofs`, `VaultCallsProofs`: the
   store and the session life cycle with processes, faults and kills, and the abstract vault it
   implements.
2. `DaemonSocket`, `DaemonSocketProofs`: several daemons starting, stopping and dying on one path.
3. `AbstractStream`, `VaultStream`, `VaultStreamProofs`: the encrypted stream between sealing and
   unsealing, over a storage that cuts, mixes and repeats frames, and the stream without frames that
   it implements.
4. `DaemonService`, `DaemonServiceProofs`: the service loop with its framing, its clients, time-outs
   and signals.
5. `SignalForwarder`, `SignalForwarderProofs`: the two threads of a session, its child and the
   signals. It looks inside the steps `forward`, `wait` and `seal` of `VaultStore`.
6. `ManifestKey`, `Opening`, `OpeningProofs`: the manifest with its encoding, and the selection of the
   runtime root. They look inside the steps `Unlock` and `Authenticate`, and `CreateHome`, of
   `VaultStore`.

How they fit together: `VaultStore` is the whole of a call in steps that other processes can see;
the other modules of the store open one of these steps each. What `VaultStore` assumes of them
is what they show: a state file opens with the key it was sealed under and is accepted
only whole (`VaultStream`), a manifest opens with the password it was wrapped for (`WrittenOpens`)
and with no other (`OpenedAsWritten`), a profile has one runtime path (`StableHome`), and sealing
starts only after Codex has ended (`SealedAfterExit`).

The `MC...` modules name the values of TLC's instances. No module uses a RECURSIVE operator.

## 3. The store

### Modules

- `VaultStore` - the model. Its constants are the invocation slots `Procs`, the valid user names
  with their directories `Fold`, the passwords and which of them are long enough, random values
  `Ids`, the edits sessions make, runtime roots and the faults to explore.
- `AbstractVault` - what the store promises: profiles that change only under a holder, one aspect at
  a time, and the versions a power loss may fall back to.
- `VaultStoreProofs`, `VaultPromisesProofs`, `VaultCallsProofs` - the theorems.
- `MCVaultStore` - names for the small instances; `Store*.cfg` give the constants their values.

### Correspondence

| Model | Code |
|---|---|
| `dirs[d]` | `users/<name in lower case>`: manifest and state file; `None` while there is no such directory |
| `images[d]` | what may be there after a power loss: every version since the directory was last synced |
| `lock[d]` | the advisory lock on `active.lock`, held by an open file of a process |
| `runtime[<<root, id>>]` | the plaintext directory `<root>/<profile UUID>` |
| `orphans` | runtime directories in use by a Codex whose codex-vault was killed |
| `strays` | paths that a Codex cut loose by a panic may still write to |
| `pc`, `job` | where a call is, and its arguments |
| `seen[p]` | the manifest read under the lock (for `add_user`, the one being created) |
| `draft[p]` | the sealed file not renamed yet (for `add_user`, the staged empty state) |
| `home[p]` | the directory the call's `TempDir` owns |
| `outcome[p]` | the error the call will return, or `Ok` |
| `acked`, `retired` | history: edits of sessions that returned `Ok`, passwords rotated away with `Ok` |

`add_user` is `AddUser` (check and staging), then `Publish` or `PublishFails`. `rotate_password` is
`BeginRotation`, `AcquireLock`, `Authenticate`, `ReplaceManifest`, `SyncProfile`, `Release`.
`run_program` is `BeginRun`, `AcquireLock`, `Unlock`, `CreateHome`, `Extract`, `Spawn`,
`StartForwarder`, edits of the child, `ChildExits`, `Seal`, `ReplaceState`, `Cleanup`, `Release`.
Each has its failures: `AuthenticationFails`, `LockedStepFails`, `HomeRefused`, `ExtractFails` with
`Discard`, `SpawnFails`, `ForwarderFails`, `ForwarderPanics`, `SealFails`, `CleanupFails`. Steps that touch only
what no other process can see (deriving keys, staging a directory under a fresh name, writing a
temporary file) belong to the step before the rename that publishes them. A call that is refused at once
changes nothing and is a stuttering step.

Abstractions:

- The contents of a Codex home are the set of edits made to it. An edit may be anything, also a
  deletion; what matters is whether a later state includes it.
- One random value stands for the UUID and the data key drawn by one `add_user`. The fields are kept
  apart, so a key that no longer fits shows.
- A wrapped key opens with the password it was wrapped for and the header it was bound to; a state
  file opens with the key it was sealed under.
- A rename is atomic. A sync of a directory makes the renames in it durable; a power loss keeps some
  prefix of the unsynced renames (ordered metadata, as on ext4 or xfs). Temporary files and staging
  directories left by a kill have fresh names that nothing opens, and are not kept in the state.
- A partial extraction or removal leaves any subset of the contents.

`SignalForwarder::start` fails in two ways. When the handlers cannot be registered it returns an error, and
`run_program` kills and reaps Codex and closes the vault (`ForwarderFails`). When no thread can be made,
`thread::spawn` panics (`ForwarderPanics`): unwinding drops the child, which neither kills nor reaps it,
then the `TempDir` and the lock file (`Discard`, `Release`), and nothing is sealed. Codex goes on as a
stray: it may write to its old path as long as the path exists, make it again, or find the directory
of a later session there (`Found`). How long it runs nobody knows, so a path stays in `strays` until
power is lost.

The environment: `Crash` kills a process at any step (the kernel releases its lock; a running Codex
becomes an orphan and keeps editing), `Recover` is a person who removes a leftover nobody uses,
`PowerLoss` ends everything. `Faults` selects which of `"crash"`, `"io"` and `"power"` a run
explores.

### Runs

| Run | Instance | Shows |
|---|---|---|
| `sessions` | 2 processes, 1 profile with 2 spellings, 2 passwords, 2 ids, 1 edit, 2 roots, kills and I/O errors | mutual exclusion, one Codex per home, nothing acknowledged lost, no plaintext after `Ok`, leftovers untouched, identities stable; a stray may write at any moment |
| `durability` | 2 processes, 1 profile, 2 passwords and a weak one, 2 ids, 1 edit, 1 root, all faults | types, whole profiles, retired passwords stay retired, `VaultStore` implements `AbstractVault` |
| `liveness` | 2 processes, 1 profile, kills and I/O errors, fairness | every call returns |
| `rotation_error` | I/O errors only | a violation, see below |

Why these bounds: each property relates at most two processes and one profile, and the conflicts
(two creations, session against rotation, a leftover against a new session) need two of each. Two
ids let a profile be created twice, and two creations race. Two roots let a session start while the
leftover of the previous one is still in use elsewhere. Profiles share no state but the random
values, which are fresh; the theorems below cover any number of profiles. Nothing is unbounded except
`add_user` calls, which `Ids` bounds. Deadlock checking is off because the program may stop: when the
random values of an instance are used up and no profile exists, no further call is modelled.

Symmetry (processes, ids, edits, strong passwords) is used in `sessions` and `durability`, which check
no liveness. `sessions` adds the roots: without power losses it does not matter which are in memory. No run
has a root in memory beside one on disk; the theorems cover any `VolatileRoots`.

Fairness: weak fairness of `Step(p)`, the steps a process takes by itself. The operating system
schedules every process, and no step waits: the lock is tried, not waited for, and `create_dir`,
`rename` and removal return. There is no fairness for the callers, for Codex, for
people or for faults; so `Finishes` says that a call returns unless its Codex runs for ever. It does not say
that the lock is free then; that is the theorem `LocksEndWithCalls`.

### The finding

`rotation_error`: `replace_private_json` renames the new manifest into place and syncs the directory
afterwards. If the sync fails, `rotate_password` returns an error while the new password is
already the valid one. `tests/store.rs:202` and `CHANGELOG.md:52` ("password rotation rollback")
say that a failed rotation leaves the old password valid; this holds for every other failure.

Not a finding but worth knowing: neither the rename of `state.cvlt` nor that of a new profile is
followed by a directory sync, so a power loss may take back a session that was reported as saved. No
document promises otherwise. The model has it (`PowerLoss` trims `acked`), and
`WholeProfiles` shows that whichever version comes back can be opened. `RotationsMakeDurable` adds where
the loss ends: the sync of a rotation makes durable what the sessions before it saved.

Worth knowing, too: after the panic of `runner.rs:107` the profile is free while its Codex still runs, and
so is the name of its runtime directory. The next session gets the same `CODEX_HOME` and shares it
with the stray. `docs/ARCHITECTURE.md:38` describes a runner that "waits for Codex, then
reseals the state before returning"; on this path it does neither. No run can therefore show two Codex
processes to be apart in general: `OneCodexPerHome` speaks of sessions and of orphans of a kill, and
`SavedBeforeRemoved` and `NoPlaintextAfterOk` except a directory that a stray may write to, since without
these exceptions the code breaks each of the three. What survives a stray: sessions still exclude each
other, acknowledged edits stay, every version opens, and no call removes what a stray has made again.

## 4. The daemon socket

### Modules

`DaemonSocket` models codex-vaultd processes on one socket path, from start to exit;
`MCDaemonSocket` and `Socket*.cfg` make the instances, `DaemonSocketProofs` has the theorems.

### Correspondence

| Model | Code |
|---|---|
| `path` | the file that `socket_path` names: a socket inode, another file or nothing |
| `sock[d]`, `listening` | the listener of a process: the inode it is bound to, whether it accepts |
| `guard[d]` | the inode in its `SocketGuard` |
| `displaced` | history: daemons whose socket a person or a cleaner took from the path |
| `alone` | history: starts that met no other daemon, no change by hand and no fault |

`remove_stale_socket` is `Start`, `Stat`, `Probe`, `Unlink`; the rest of `bind_listener` is `Bind`,
`Listen` (both inside `UnixListener::bind`), `Record`, `Secure`, `Verify`; a daemon then serves until
`Stop`, `DropGuard`, `RemoveOwn`, `Close`. The failures are `Refused`, `StartFails`, `ListenFails`,
`RecordFails` with `Discard`, and `SecureFails`. Each system call on the path is a step. The inode of
a socket can be reused only when neither the path nor an open socket refers to it. `Crash` kills
a daemon, `Meddle` changes the path by hand.

The file mode is not in the state: `Verify` may pass or fail when the path names another daemon's
socket. The parent directory is private, so all files in it are the user's; its creation only fails or
succeeds. Device numbers are part of the inode.

With `Supervised` a start begins only when no other start is under way, and people change the path
only while no start or stop is under way, as when one administrator or one service manager acts
at a time. Stops, kills and I/O errors come at any time, also during a start of another daemon.

### Runs

| Run | Instance | Shows |
|---|---|---|
| `socket_supervised` | 3 daemons, 4 sockets, 1 other file, all faults, one start at a time | a serving daemon is reachable; no live socket and no other file is removed |
| `socket_free` | 2 daemons, 3 sockets, 1 other file, kills, failing starts and changes by hand, fairness | an orderly end, also of a start that failed, leaves nothing behind; a stale socket does not stop a later start |
| `socket_race` | 2 daemons, no faults | a violation, see below |

Why these bounds: a conflict is between a daemon that acts and one that is acted on; a third one
allows one that serves away from the path, one that serves at it and one that starts. One inode more
than daemons leaves a choice between a fresh and a reused inode. Deadlock checking is on.

Fairness: weak fairness of `Step(d)`, what a process does by itself without waiting for anybody.
Signals, requests, starts and faults are not fair.

Faults: `"io"` makes any call fail on the way from the start to a daemon that serves, among them
`set_permissions` with the daemon's own socket at the path; `"cleanup"` makes the look at the file or its
removal fail at the end. `CleanExit` is checked with the first and without the second, because the code
ignores a failing removal. It covers the ends that pass through the listener's drop; a `listen` that fails
(`ListenFails`) leaves the file, since there is no guard yet.

### The finding

`socket_race`: the check and the removal in `remove_stale_socket` are separate steps, and a socket refuses
connections between `bind` and `listen`. Of two daemons that start at once, one can remove the other's
new socket; both then serve, one of them unreachable. The guard of the latter may even
hold the inode of the former, since it reads the inode from the path (`daemon.rs:240`), and remove that
socket on shutdown. `docs/DAEMON_PROTOCOL.md:32` promises "stale-socket recovery, and inode-aware
cleanup".

Not a finding but worth knowing: when the old daemon removes its socket between `Stat` and `Probe` of a
new one, `connect` answers `NotFound`, which the code means to accept, but the removal that follows fails
with the same error and the start is refused (`Refused` at `unlink`). `StaleRecovered` therefore
speaks of starts that meet no other daemon.

## 5. The encrypted stream

`VaultStream` has the writers that `seal_directory` drives, one for each save of a profile, and the
reader that `unseal_directory` drives. `MCVaultStream` and `Stream.cfg` make the instance,
`VaultStreamProofs` has the theorems. `AbstractStream` is the stream as its callers see it: a text that
grows until it ends and is saved later, a storage that may keep it from a reader, and a reader that
gets bytes in order and one verdict.

| Model | Code |
|---|---|
| `phase[s]`, `after[s]` | where `seal_directory` and its writer are: before a call of `write`, in one, in `finish`, or given up |
| `handed[s]`, `input[s]`, `pending[s]` | bytes handed to `write`, bytes of the running call not yet taken, length of `buffer` |
| `sequence[s]`, `Seed[s]` | `VaultWriter.sequence` and `nonce_seed` |
| `sealed`, `stored[s]` | the frames that went through the cipher, and those written out whole |
| `file`, `damaged` | the file header the reader has read; whether the file is other than was saved |
| `expected`, `plaintext`, `offset`, `finalized` | the fields of `VaultReader` |
| `out` | what `read` has delivered to the archive |

`write` is `Write`, then `SealChunk` or `SealChunkFails` for each full frame, then `KeepRest`; the end
of the archive is `EndArchive` (or, after an error, `DropArchive`, which writes the trailer of the
archive when the value is dropped but never a final frame); `finish` is `SealRest` and `SealFinal` or
`FinishFails`. The reader is `OpenFile`, `ReadData`, `ReadFinal`, `Refuse`, `Deliver`,
`EndUnpacking` or `AbandonUnpacking`, and `VerifyFinished`.

Abstractions: a byte is a pair of its stream and its position, so that any reordering, loss or
exchange shows. The cipher is ideal: a frame opens only under the file header, the frame header and
the nonce it was sealed with. A damaged file gives at each read any frame the data key ever sealed, in
this save or another, with any frame header, or bytes that no frame comes of. A nonce is a number
below `NonceSpace`, where 12 bytes are a number below 2^96; adding the sequence number may carry out
of it, which is an error. The archive is the bytes it writes, in pieces of any size.

| Run | Instance | Shows |
|---|---|---|
| `stream` | 2 saves of at most 6 bytes and a trailer, frames of 2 bytes, writes of 1 to 3, sequence numbers 0 to 3, seeds 1 and 7 of 9 | a nonce is used once; only a beginning of a save is unpacked, only a whole save accepted; what was saved can be read; `VaultStream` implements `AbstractStream` |

Why these bounds: the longest save needs more frames than there are numbers, the second seed carries
out of the nonce space before the numbers end, a write spans less than, exactly and more than a
frame, and two saves are enough to exchange frames. The trailer is shorter than a frame, as 1024 is
less than 65536. Deadlock checking is off: the writers and the reader end.

`SavedIsReadable` is about the edge: the writer refuses the last sequence number because the reader
does. `DeliveredIsPrefix` says what the extraction in front of `verify_finished` is worth:
entries of a damaged file are unpacked, but only as they were saved. `ImplementsAbstractStream` adds the
steps: a text that has ended does not change, a failed write never leads to a save, what was
delivered is not taken back and a verdict is final. Its text is what was handed over (`handed`), its
fate follows from `phase` and `after`, and frames, numbers and nonces are stutter.

## 6. The daemon service

`DaemonService` has the loop of `serve_daemon` and the single connection of `serve_daemon_once`
(`once`), `handle_connection`, `read_message` and `write_message`, clients in `query_daemon_status`
(`Queries`) and clients that send anything (`Others`). It starts where `DaemonSocket` serves.
`MCDaemonService` and `Service*.cfg` make the instances, `DaemonServiceProofs` has the theorems.

| Model | Code |
|---|---|
| `server` | the loop: in `accept`, turning a peer away, reading a header or a body, ending, down |
| `queue`, `current` | the backlog of the listener; the stream in `handle_connection` |
| `got`, `wait`, `held` | bytes read by the two calls of `read_exact`; how long the running read and the connection have lasted |
| `stopping` | the flag that the signal handlers set |
| `plan[c]`, `sent[c]`, `stage[c]` | what client `c` sends, how much of it it has sent, and where it is |
| `waited[c]`, `answer[c]`, `closed[c]` | its read with a time-out, the response, the end of the connection |
| `behind[c]` | history: it found somebody ahead of it |
| `outcome[c]` | the result of `query_daemon_status` |

The service's actions are `Accept`, `RejectPeer`, `Receive` (one `read`, which returns what is there),
`EndOfInput`, `ReadTimeout`, `BadLength`, `GoodLength`, `Dispatch`, `End`, `AcceptFails`, `Signal`.

Abstractions: the JSON is a status request of this version, of another version, or no request. A
response fits into the socket's buffer, so writing it does not wait. Time passes only while the
service waits for bytes: its own steps, and those of `query_daemon_status`, take none. A client
connects again only when its last connection is over on both sides. One signal is modelled, in the
loop; a signal during `serve_daemon_once` ends the process in the default way.

| Run | Instance | Shows |
|---|---|---|
| `service` | 1 query, 1 other client with six kinds of frames sent in any pieces, a header of 2 bytes, bodies up to 2, time-outs of 2, a backlog of 1, the loop and the single connection | only whole, allowed requests are answered; a client with nobody ahead is served; a connection is held for a bounded time and ends; a signal ends the daemon |
| `service_rejection` | 1 query, which may come from another user | a violation, see below |

Why these bounds: a header or a body can be cut between its bytes, lengths are zero, one, the limit
and one above, a time-out can begin again with each byte, and one client can be served
while another waits in a full backlog. Deadlock checking is off: the daemon ends.

Fairness: weak fairness of the service's steps, of its end, of the clock, and of a query that has
asked. Nothing makes other clients send, leave or stop connecting; there is no fairness for signals.
`Stops` and `ConnectionEnds` hold all the same, since each read has a time-out and the flag is
looked at in front of each `accept`. `HoldBounded` has the price: the time-out is one of each read,
so a connection may last for one time-out a byte.

### The finding

`service_rejection`: `handle_connection` answers a peer with another UID and closes the connection with
the request unread (`daemon.rs:304-314`). A client that is still in `write_message` gets the error
of its write and never reads the reason: `query_daemon_status` returns an `Io` error.
`tests/daemon.rs:91` asserts `VaultError::Protocol(_)` for this very case, and
`docs/DAEMON_PROTOCOL.md:13` says "Each connection carries one request and one response."

## 7. The signal forwarder

`SignalForwarder` is one call of `run_program` from the launch of Codex to the seal: the calling
thread (`pc`), the forwarding thread (`thread`), the child with its process id, and signals at any
moment. `MCSignalForwarder` and `Forwarder.cfg` make the instance, `SignalForwarderProofs` has the
theorems.

| Model | Code |
|---|---|
| `pc` | `run_program`: launch, `Signals::new`, spawn of the thread, `wait`, the three parts of `stop`, the error path, the seal |
| `child`, `reused` | the child as the kernel has it, and whether its id has been given to another process |
| `installed`, `pending`, `wake`, `closed` | the handlers, flags, pipe and handle of the signal-hook crate (external) |
| `thread`, `todo`, `taken` | the loop `for signal in signals.forever()` and `kill` |
| `owed`, `struck` | history: signals not sent on yet; another process was sent one |

Registering is one step for each signal, since each may fail and a signal without handler ends
codex-vault. A handler sets its flag and wakes the pipe in one step, the iterator takes flags one by one
and empties the pipe before it looks at them. If the thread cannot be spawned, the panic ends the call
(`dead`); what that does to the profile is `ForwarderPanics` of `VaultStore`.

| Run | Instance | Shows |
|---|---|---|
| `forwarder` | 3 signals, fairness | no signal is lost while Codex runs; the session is sealed only after Codex has ended, and always then; when another process may be struck |

Why this bound: SIGINT, SIGTERM and SIGHUP are all the program registers. Deadlock checking is off: the
call ends.

Fairness: weak fairness of each thread, and of the end of a child that was killed. Codex need not end,
and signals need not come.

`StrangerSpared` states the window of the code rather than its absence: between the return of `wait` and the
end of `stop` a signal may go to a process that got the child's id.

## 8. Opening a profile

`ManifestKey` has the functions of `manifest.rs`, `kdf.rs` and `key_wrap.rs`: the header and its
associated data, `validate`, the parameters of the derivation, wrapping and unwrapping. `Opening` puts
them to work: `add_user` and `rotate_password` write manifests, the storage alters them, and `unlock`
authenticates one, selects the runtime root call by call and makes the profile's directory.
`MCOpening` and `Opening.cfg` make the instance, `OpeningProofs` has the theorems.

| Model | Code |
|---|---|
| `disk[profile]` | what reading `manifest.json` returns |
| `written` | history: every manifest written, with its password and data key |
| `opened[p]`, `key[p]` | the manifest `unlock` has authenticated and the key it unwrapped |
| `root[path]` | a candidate for the runtime root: absent, a private directory of the user, or anything else |
| `attempt[p]`, `call[p]` | the candidate `select_runtime_root` tries, and the call with its environment |
| `homes` | history: the runtime directories sessions were given |
| `disturbed`, `altered` | history: somebody changed a candidate or a call failed; alterations of the storage |

`prepare_runtime_root` is `Relative` or `Look`, `Create`, `Check`, `Resolve`; each may fail
(`CallFails`), and the next candidate follows unless an override names the only one. `MakeHome` is the
`TempDir`. Others take and remove candidates (`Occupy`, `Remove`).

Abstractions: a text is the sequence of its bytes, so that an ambiguous encoding shows; an integer of
fixed width is one item of the associated data; base64 and hexadecimal texts stand for the values they
encode. Argon2id and AES-GCM are ideal: a derived key is a function of the password and all parameters,
and a wrapped key opens only under the key and the associated data it was sealed with. The
authentication is one step, since it computes on one copy of the manifest read under the lock. The
passwords are those long enough. A root whose parents are links is not modelled: canonicalisation is
the identity on what remains.

| Run | Instance | Shows |
|---|---|---|
| `opening` | 2 processes, 2 profiles with 3 names, 2 passwords, 2 keys, 2 ids, 2 salts, 3 roots of which one relative, with and without override, 1 alteration | what opens was written so; what was written opens; the runtime path is stable |

Why these bounds: an exchange needs two profiles, or one profile and its rotation; the altered headers
differ from a written one in one field each; a race for a candidate needs two processes,
and three candidates leave a next one after a failure. `Bounds` in `MCOpening` leaves out what differs
by names only (identifiers and salts are drawn in one order) and the combination of alterations with
changed roots, which meet in no step: the manifest is read before a root is selected. Symmetry is used for
processes, passwords and keys. Deadlock checking is off: when the random values are used up and nothing
opens, no call is modelled.

The exclusivity of the profile's directory is a matter of `VaultStore`. `StableHome` speaks of
undisturbed selections when there is no override: the code takes any error of a candidate as a
reason to go on to the next, so a passing failure moves a profile to another path for one session
(the repository's `README.md:86-102` promises one path for one root, and one root for an override). Also
under an override it speaks only of roots with no link on the way that somebody retargets.

## 9. Proofs

`VaultStoreProofs` proves, for all values of the constants that satisfy the named assumptions of
`VaultStore` (`FoldAssumption`: `Fold` maps names to directories; `StrongAssumption`: `Strong` is a
subset of `Passwords`; `NoneAssumption`: `None` is none of the values):

| Theorem | Property |
|---|---|
| `TypeCorrect` | `TypeOK` |
| `CodexHomesApart` | `OneCodexPerHome` |
| `SessionsExclusive` | `ExclusiveSession` |
| `ProfilesWhole` | `WholeProfiles` |
| `UpdatesKept` | `NoLostUpdate` |
| `SealedBeforeRemoval` | `SavedBeforeRemoved` |
| `IdentitiesStable` | `IdentityStable` |
| `LeftoversUntouched` | `LeftoversPreserved` |

The inductive invariant comes in layers, each proved with the help of the earlier ones:

1. `TypeInv`. `TypeOK` is not inductive: extraction reads a profile, cleanup a runtime directory,
   sealing a manifest, and each must exist. `CallsOK` says what a process has at each step;
   `HomesOK` that an owned runtime directory exists, has one owner and no orphan in it. The last
   follows from the exclusive creation alone, not from the lock, which is why it survives kills; it does
   not extend to strays, whose directory has been removed.
2. `LockInv`. A process holds the lock of its profile exactly between `AcquireLock` and `Release`.
   `OthersUndisturbed` draws the consequence used everywhere after: a step of one process leaves
   another's variables, its locked profile and its runtime directory alone.
3. `WholeInv`. What is about to be renamed fits what is there (`Fits`), and the present version is
   among the images; so each version a write adds is whole.
4. `ContentsInv`. During a session the runtime directory contains at least the profile's contents;
   at `replace` the draft equals it, at `cleanup` without error so does the profile. A stray can only
   add to the directory, so beside one the draft is a part of it and the first half still stands.
5. `IdentityInv`. All images of a profile have its identity.

`VaultPromisesProofs` continues in the same way:

| Theorem | Property |
|---|---|
| `PasswordsRetired` | `RetiredStaysRetired` |
| `NoPlaintextLeft` | `NoPlaintextAfterOk` |
| `OnlyLeftoversRefuse` | `RefusedOnlyByLeftovers` |
| `StoreImplements` | `ImplementsAbstractVault` |

6. `RetiredInv`. A rotation that is about to return `Ok` has left no image under another password than
   the new one (`Rotates`); a directory that does not exist has no retired password.
7. `IdsInv`. The ids of two profiles differ, also those of images and of profiles being created,
   since an id is drawn once.
8. `NamedInv`. A runtime directory is named by the id of its session's profile. With 2 and 7, no other
   process can bring it back before the call returns, a stray of that path excepted.
9. The refinement needs no further invariant: `RefinementStep` has one lemma for each step that a
   caller can see (`PublishCreates`, `AcquireOpens`, `ReplaceChangesPassword`, `SyncConfirms`,
   `ReplaceSaves`, `UnlockCloses`, `PowerLossFallsBack`), and the rest stutter. `SummaryAssumption` keeps `None`
   apart from the abstract versions.

`VaultCallsProofs` states and proves what no run lists; TLC has found each of these to hold on the
instances of `sessions` and `durability` as well.

| Theorem | What it says |
|---|---|
| `PlaintextAbandonedByFault` | a plaintext directory without an owner comes only from a kill, a power loss under a root on disk, a call that reports an error, or a stray that makes its directory again (the converse of `NoPlaintextAfterOk`, for every way out of a session) |
| `ProfilesChangeOnAuthority` | an existing profile changes in its password alone, by a rotation, or in its contents alone, by a session and to those of its own directory (beside a stray: to a part of them); each time the caller gave the password the profile has then |
| `RotationsMakeDurable` | a rotation that returns `Ok` leaves only versions with the new password and all acknowledged edits |
| `LocksEndWithCalls` | no lock survives its call |

10. `AuthorityInv`. From the authentication on, the manifest a call has read bears the password the call
    was given. With 3 (what was read is still there) and 2 this makes a check under the lock good until
    the write many steps later; 4, 8 and `HomesOK` say whose contents are written.
11. `SettledInv`. Before a rotation returns `Ok` the only images are the present version and, if the
    directory of profiles was never synced, none.

`DaemonSocketProofs` proves, for all values of the constants with `None` and the other files apart
from the sockets:

| Theorem | Property | Assumes |
|---|---|---|
| `CleanExits` | `CleanExit` | no `"cleanup"` fault |
| `ServersReachable` | `Reachable` | `Supervised` |
| `LiveSocketsKept` | `LiveSocketKept` | `Supervised` |
| `ForeignFilesKept` | `ForeignFileKept` | `Supervised` |
| `TypeCorrect` | `TypeOK` | - |
| `LoneStartsGoOn` | `LoneStartGoesOn`: an undisturbed start is never refused | - |

`TypeInv` adds to the types that a process has a socket exactly from `Bind` to `Close` and that no two
sockets have the same inode. `CleanInv` says that a guard knows the inode of a socket that is still at
the path. `PathInv`, the invariant under `Supervised`, ties the path to the daemons: it names the
socket of every daemon between `Bind` and the removal unless somebody took it away (`Listed`),
the guard has the right inode, and a start that is about to remove has seen a socket that belongs to no
running daemon. The last part is what two simultaneous starts break.
`LoneInv` says what a start that meets nobody finds at each step: nobody answers at the path, and
from `Bind` on the path is its own. It is the safety half of `StaleRecovered`.

`VaultStreamProofs`, for all widths, seeds, sizes and numbers of saves with `MaxSequence` below
`NonceSpace` and a trailer shorter than a frame (`SeedAssumption`, `WidthAssumption`,
`SizeAssumption`, `NoneAssumption`):

| Theorem | Property |
|---|---|
| `TypeCorrect` | `TypeOK` |
| `NoncesUnique` | `NonceOnce` |
| `PrefixDelivered` | `DeliveredIsPrefix` |
| `WholeAccepted` | `AcceptedIsWhole` |
| `SavedReadable` | `SavedIsReadable` |
| `StreamImplements` | `ImplementsAbstractStream` |

`WriterInv` says of each writer how its counters fit (`Aligned`), that the frames stored are those sealed,
in order (`Filed`), that a frame has exactly the bytes its number stands for (`Framed`, `Numbered`)
and that a number seals one frame (`UniqueInv`). `ReaderInv` says that what was received is the bytes
up to the expected number (`InStep`), that all of it has been delivered when the final frame is read (`Complete`), and that an
undamaged file still has the frame the reader asks for (`Intact`). `NonceOnce` needs `NonceFits`: two
numbers below the carry have two nonces.
The refinement needs one invariant more, `EndInv`: only a call that ends the text lets the writer
finish after it. `RunBegins` and `CallHands` show that a text only grows, `FlushSaves` and
`ReaderRefines` map the other steps a caller can see, and `FramesUnseen` has the rest stutter.

`DaemonServiceProofs`, for any numbers of clients, sizes, time-outs and backlogs (`ClientAssumption`,
`PlanAssumption`, `SizeAssumption`):

| Theorem | Property |
|---|---|
| `TypeCorrect` | `TypeOK` |
| `OnlyWholeRequests` | `RepliesDeserved` |
| `FirstServed` | `FirstIsServed` |
| `BoundedHold` | `HoldBounded` |
| `NobodyIsForgotten` | an open connection is being served or in the backlog, and none outlives the listener |
| `QueriesGetWhatTheyDeserve` | what `query_daemon_status` returns fits what happened to its request |

`LineInv` puts each open connection in one place, the backlog or the service; `SentInv` bounds what was
read by what was sent; `ServedInv` says for which step of the service which part of a frame was
read; `HeldInv` is `HoldBounded` in the making: a connection has been held for at most one time-out for
each byte read, the running wait, and one time-out for a signal. `FirstInv` follows a query with
nobody ahead: the service is with it, or next with it, and its read cannot time out before the answer.
`NobodyForgotten` is the safety half of `ConnectionEnds`; `OutcomesDeserved` carries `RepliesDeserved`
over to the client, and is inductive with it.

`SignalForwarderProofs`, for any set of signals (`NoneAssumption`): `TypeCorrect` (`TypeOK`),
`SealedAfter` (`SealedAfterExit`), `StrangersSpared` (`StrangerSpared`) and `SignalsOnTheirWay`
(`NothingOverlooked`: what Codex is owed is in a flag or in the thread's hand, and the thread does not
sleep through it nor through the end of the session). `PhaseInv` says which child
and which thread go with each step of `run_program`; `RoundInv`, that a flag set during a round of the
iterator is looked at in this round or announced by the pipe for the next. `NothingOverlooked` is the
safety half of `Forwarded` and `Seals`.

`OpeningProofs`, for any texts, names, passwords, candidates, alterations and numbers of processes
that satisfy the assumptions of `ManifestKey` and `Opening`:

| Theorem | Property |
|---|---|
| `AssociatedDataInjective` | two headers with the same associated data are equal |
| `TypeCorrect` | `TypeOK` |
| `OnlyAsWritten` | `OpenedAsWritten` |
| `EveryWrittenOpens` | `WrittenOpens` |
| `HomeIsStable` | `StableHome` |
| `OneManifestPerWrapping` | a wrapped key opens in one manifest, for one profile and one password |

`AssociatedDataInjective` peels one field after the other off the encoding: each text has its length in front of
it. Then `Written` says of the manifests on record that they open and that those of a profile have one
identity; `Stored`, that a sealed key the storage returns is on record or damaged;
`Selected`, that every candidate before the one being tried is useless for good, unless somebody
interfered; `Placed`, the same of the roots sessions were given.

Only model-checked: the liveness properties `Finishes`, `StaleRecovered`, `Stops`, `ConnectionEnds`,
`Forwarded` and `Seals`; fairness and ENABLED are outside the prover's reach. For four of them the
safety half, which says that nothing is lost or refused on the way, is a theorem (`LoneStartsGoOn`,
`NobodyIsForgotten`, `SignalsOnTheirWay`). Every other property of a passing run is proved.

## 10. Not modelled

- The command line (`main.rs`, `bin/codex-vaultd.rs`): arguments, prompts and printing around one
  call of a modelled operation.
- The error type: the kinds a caller can tell apart are outcomes in the models.
- `initialize` and `list_users` change nothing another call depends on; `default_vault_root` and
  `default_daemon_socket` look up environment variables.
- File modes, apart from the privacy of a runtime root and the two outcomes of the daemon's check; the
  repair of group and other permissions is not part of any property.
- What the archive can hold: links and special files, which `unseal_directory` leaves out
  (`docs/ARCHITECTURE.md:34`). To the models an archive is its bytes, or a set of edits.
- Processes that Codex itself leaves running after it exits could write while `close` seals; the code
  does nothing about them and no property depends on them.
- A Ctrl-C that reaches Codex twice, from the terminal and from the forwarder: what Codex makes of the
  second one is not in this code.
- Runtime roots below links that somebody retargets while a session runs.
