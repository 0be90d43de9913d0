# Verification of SDProject: a replicated key-value table

SDProject is a key-value table served over TCP by two processes, a primary and
a secundary (the source's word for the backup), used by any number of clients
that fail over from one server to the other.  This directory holds TLA+ modules
translated from its C code, TLC configurations that model-check them on small
instances, and TLAPS proofs of the main safety properties for every instance.
Paths below are relative to the repository.

## 1. Inventory

| Part | State | Operations | Modelled in |
|---|---|---|---|
| `table-server.c` | `status`, `state`, `shared.current_backup`, `connections[]`, `number_clients`, the file `secundary` | start as primary or secundary, accept, serve a request, forward a write, notice the end of a connection, the thread that connects to the backup, the `print` command | `TableServer`, `PollLoop` |
| `primary_backup.c` | none of its own (uses the table of the server) | `update_state`, `send_connect_ip`, `ask_status`, `hello` (no caller) | `TableServer` |
| `table_skel.c` | `tabela` | `invoke`, `table_skel_init` | `TableSkel`, `KVStore`, `HashTable` |
| `table.c` | buckets, `quantity_entry` | put, update, get, del, size, keys, `key_hash` | `HashTable`, `MCHashTable` |
| `list.c` | nodes, `size` | add, remove, get, keys | `SortedList` |
| `client_stub.c` | `current_server`, the two `server_t` | bind, put, update, get, del, size, keys, each through `retry_servers`; unbind | `ClientStub`, `Wire` |
| `table-client.c` | none | prompt loop | `ClientStub` |
| `network_client.c` | one descriptor per `server_t` | connect, send and receive, close, `write_all`, `read_all` | `Sockets` (whole messages), `PollLoop` (bytes and partial reads) |
| `message.c` | none | serialise, parse, validate | `TableSkel` (kinds of messages), `Wire` (their bytes) |
| `data.c`, `entry.c` | none | allocate and copy memory | not modelled |
| `test_*.c`, makefile, `*.sh` | | unit tests, build, start scripts | not modelled; read for arguments and expectations |

How the parts interact.  A client or a server calls `network_send_receive`,
which writes a request and blocks on the reply, without a timeout.  A server
polls its connections and handles one request at a time in
`network_receive_send`.  A primary whose `state` is UP applies a write, sends
it to its backup over `shared.current_backup`, waits for the reply, and only
then answers the client.  At its start a primary asks the other server for its
status, and a server that finds a primary copies its table key by key and then
sends OC_UP, upon which the primary connects back to it.  A thread of the
primary makes the first connection to the backup and shares
`current_backup` with the poll loop without a lock.

What is hard here: two processes that may be killed and restarted at any
step; requests that outlive their sender; both servers blocking on each other;
a state transfer that runs while the source serves writes; a promotion
triggered by the end of any connection; a descriptor that two threads assign;
calls that are sent again after they may have been applied; a stream of
bytes on which both ends count where a message begins; reads that return less
than was asked; an array of slots, a counter of clients and a counter of events
that must stay in step.  `PROJECT.json`
lists these hazards at their lines.

What makes each part correct: the two servers never forward writes to each
other; primary and backup hold the same data once a write has been answered; a
primary only uses a descriptor that is open; a write that was answered survives the
primary; a table is copied from a primary
only; a call always returns; a start-up ends; a backup notices that the primary
is gone; the hash table is one map, whatever the collisions, and its counters,
which size the arrays it allocates, are exact; a reply belongs to the request
it answers; every ready client is served in each round of the poll loop, and a
waiting one gets the slot that another leaves.

## 2. Modules

    TableSkel        messages, invoke() over a table seen as a map
      TableSkelProofs   lemmas on its messages and replies
      Sockets        connections and the calls on them
        TableServer  the two server processes
        ClientStub   the client processes
          PrimaryBackup        both together, fairness, properties
            AckedWrites           what the answers to clients promise
            PrimaryBackupClaims   what comments claim and the code does not do
            PrimaryBackupTypes    proof of type correctness
              PrimaryBackupSafety proof of three safety properties
                PrimaryBackupAgreement  proof that replicas agree
                  AckedWritesProofs  proof that answered writes survive
                                     (with AckedWrites)
      Wire           the bytes of messages: message.c
        WireProofs   proof that every message is parsed as what it was
        PollLoop     the poll loop over its slots, and the two ends of a call
          MCPollLoop    keys, data and requests for TLC
          PollLoopProofs  proof of its array, its rounds and its calls
                          (with WireProofs)
      KVStore        the abstract table: one map, one answer per request
      SortedList     list.c
        HashTable    table.c below invoke(), shown to implement KVStore
          MCHashTable   keys and key_hash for TLC
          HashTableProofs  proof that it does, with what list.c computes

**TableSkel.**  A table is a function from `Key` to `Val` or `NoVal`.  `Apply`
is what a request does to it, `Answer` the reply of `invoke`.  STATUS and UP
fall to the default branch, which returns a message nobody filled in
(`GarbageReply`).  That a table may be abstracted to a map is not assumed: it
is what `HashTable` implements (run `tables`).

**Sockets.**  A connection is a record with one outstanding request and one
outstanding reply at most, because every process blocks on the reply before
it sends again.  The ends close independently.  A request written by a process
that then dies stays readable: the server still serves it.  `Vanished` is the
kernel closing everything a process had open.

**TableServer.**  `pc` says where a server is: `down`; `boot` (port open,
`primary()` or `secundary()` to run); `ask`, `keys`, `get`, `up` (blocked in
the start-up exchange on `chan`); `loop` (polling); `repl` (blocked in a
forward).  `status`, `state` and `link` are the globals `status`, `state` and
`shared.current_backup`; `link` keeps its value after the descriptor is closed,
as the pointer does.  A step runs from one blocking call to the next.  The poll
loop serves its slots in array order; in the model any ready connection may be
next, which includes that order whatever the slot numbers are.  The thread
takes two steps, its connect and its assignment, interleaved with everything
else.  `file` is what the file `secundary` holds: nothing, the address of the
primary, or a stranger's; it is all that survives a process.

**ClientStub.**  Every `rtable_` call is one request through `retry_servers`:
up to four sends, switching server after each failure.  `Bind`, `Call`,
`Receive`, `Switch`, `GiveUp` and `Exit` are the steps; a client may be killed
in the middle of a call.

**PrimaryBackup** composes them and adds one history variable, `exposed`: the
keys whose last write the backup was not sent, or which existed when a server
started without copying the other's table.  It changes no behaviour.

**Wire.**  A byte is a number below 256 and a key the sequence of its
characters.  `message_to_buffer` and `buffer_to_message` are the two functions
of `message.c`, with lengths and numbers most significant byte first;
`RequestMessage` and `Returned` are what the stub makes of a call and of a
reply, `Requested` and `ReplyMessage` what `invoke` makes of them.  `valid`
tests the type only, because its test of the opcode is an assignment.
`WireAssumption` has the limits: a key has 1 to 65535 characters and is not
`!`, a data block has at least one byte (`data_create` refuses less).
`MessagesFit` has the other one: `message_to_buffer` counts and returns the size of a
message in an int, so the size of an entry, and that of the list of all the
keys, is at most `INT_MAX`.  Beyond these limits the code writes lengths that
it does not read back.

**PollLoop.**  One server that forwards nothing, a secundary or one that has
promoted itself, with the array `connections[]` (`fds`), `number_clients`, what
poll reported (`revents`, `result`) and its clients.  `toServer` and `toClient`
are the bytes written and not yet read.  `at` says which call the server is in:
`poll`; `scan` (the loop over the positions); `size` and `body` (the two
`read_all` of a request); `data` (the second `write_all` of the reply).  `cpc`
says the same of a client: `body`, `size`, `data` are the last three calls of
`network_send_receive`.  A step ends at the next call that may block or
that the other end can see, so the client's size and body, and the
server's two writes, are separate steps, and a process can be killed between
them.  What does not block in one round of the loop (`accept` of a connection
that is ready, the line on stdin, `result--`) is part of `Poll`; `Scan` goes to
the next ready position.  `ReadAllResult` is the set of values that `read_all`
can return once enough bytes have come: the size of its last piece, which is
all of it only if the bytes came in one piece.  Both callers compare this with
the size they asked for.  A connection is used by one client, and connections
are made in the order of their numbers.

**AckedWrites** adds a second history variable to `PrimaryBackup`: `acked[k]`
is what the last write on `k` left there according to the answer that a server
sent to a client.  It is `Unknown` from the moment a client enters a write on
the key until that write is answered, and while any write on the key is in flight
(`InFlight`): on a connection, or with a client that is between two tries of
`retry_servers` and will send it again.  It is also `Unknown` after an answer
that says nothing about the value ("key already in the table"), when a server
dies that alone had the key's last write (a key in `exposed`), and when a server
starts alone.  `AckedSurvives` compares it with the table of every server in
its loop.

**SortedList, HashTable, KVStore.**  A list is the sequence of its nodes and
its counter.  `Inserted` keeps the order of the tests of `list_add`, the test
that makes the new node the head wherever the walk is included.  `HashTable`
has one action per request, with the answer `invoke` builds from what
`table.c` returns; `KVStore` is the promise, and `Contents` the refinement
mapping.

## 3. Runs

| Run | Question | Instance |
|---|---|---|
| `startup` | Start-up protocol alone: `NoTwoReplicators`, `TransferFromPrimary` | 3 kills of either server, every content of the file, no commands |
| `failover` | `TypeOK`, `ReplicasAgree`, `LiveBackupPointer`, `AckedSurvives` with writes and crashes | 1 kill of either server, 3 inputs of a client (PUT, DEL) |
| `rejoin` | `ReplicasAgree` when the table is copied while clients write | file names the primary, 2 values, 3 inputs (PUT, UPDATE, GET) |
| `live` | `CallsReturn`, `BootsEnd`, `FailureDetected` under fairness | at most 1 kill of S1, 2 inputs |
| `tables` | `BucketsSorted`, `CountsExact`, `ImplementsKVStore` | 5 keys in 2 buckets (3 and 2), 2 values, the hash of `table.c` with its signed characters |
| `poll_loop` | `TypeOK`, `SlotsExact`, `CallAnswered`, `RoundServesAll`; under fairness `WaitingIsAccepted`, `AcceptedCallReturns` | 2 slots, 3 connections, 2 calls (UPDATE, KEYS) on a copied table of 2 keys, 1 kill |
| `promotion`, `backup_file`, `transfer_gap`, `transfer_deadlock`, `transfer_dies`, `short_read` | one claim each, refuted (section 4) | the smallest instance that shows it |

Bounds.  `Conn` bounds the connections open at once; four are enough for the
two links between the servers, one start-up exchange and a client's
connection, and a step that needs one more waits.  `MaxCrash` bounds kills,
`MaxInputs` the commands and client starts of a user.  One key is enough for
the replicated system: requests on different keys meet only in the list of
keys of a transfer, and `ReplicasAgree` compares key by key; what two or more
keys do to each other inside a table is the subject of `tables`.  Two values
in `rejoin` let a value be stale.  One client is enough to have a request
anywhere when a server dies, and the servers hold no state per client.  The
proofs of section 5, which cover every safety property of every run that passes,
do not depend on these bounds.

`poll_loop` has fewer slots than clients, so that the array gets full, a
connection waits in the backlog, and either slot can be the one that is freed;
a third slot adds only longer scans.  `MaxCalls` is two calls over all
connections: two on one connection show whether the stream is still in step
after the first, and one on each of two connections their interleaving.  UPDATE and KEYS have the messages of several parts (an entry; a
list of keys).  The assumption `RoundTrip` of `MCPollLoop`, which TLC evaluates
at the start of the run, covers the others: every request, and every reply that
some table of the instance gives to it, is parsed as what was serialised.
The table starts as a secundary's does after `update_state`.

Deadlock is not checked in `poll_loop`, whose server may be killed and whose
clients may all have ended, nor in the replicated runs: users may stop, both servers
may be down for good, the bounds end, and the mutual wait of section 4 is a
deadlock that the code really has.  It is checked in `tables`.

Fairness (`poll_loop`).  Weak fairness of the server's next step and of each
client's step inside `network_send_receive`: a process whose call can return is
scheduled.  A client that is between two calls may stay so, and a kill or an
end of a client need never come.  In particular `AcceptedCallReturns` rests on
every client that has sent the size of a request going on to send its body, or
ending: the server reads the body without a timeout, and one client that does
neither stops all the others.

Fairness (`live`, `transfer_deadlock`).  Weak fairness of each server's
start-up steps, of the end of a forward, of serving each ready connection, of
the thread and of each client's step inside a call: the scheduler runs
processes that are not blocked, and a round of the poll loop accepts one
connection and visits every ready slot.  Users, kills and restarts
are under no obligation.  `BootsEnd` holds in `live` because the backup starts
with no address in its file and is not killed, so two start-ups cannot wait
for each other; with both allowed it fails, which is what `transfer_deadlock`
shows.

## 4. Where comments and code disagree

1. `promotion` - `table-server.c:489` says a disconnection means that the
   primary is down.  `primary()` opens a connection for OC_STATUS and closes it
   itself, so in the normal start the secundary calls itself PRIMARY with the
   primary up.  What saves the system is that it also sets `state` to DOWN, and
   so does not forward: this is `NoTwoReplicators`.
2. `backup_file` - `table-server.c:453` says only the primary's address is
   written to the file.  A client that connects before the promotion has its
   own address written.
3. `transfer_gap` - a write served between the key list and OC_UP never
   reaches the server that is copying, although `update_state` returns 0.
4. `transfer_deadlock` - two servers that start up together wait for each other
   in `network_send_receive` for ever.
5. `transfer_dies` - a key deleted between the key list and its OC_GET makes
   `update_state` use `content.data` of an error reply, and the process dies;
   its comment promises -1.
6. `short_read` - `network_client-private.h:25` says `read_all` makes sure that
   len bytes are received.  It does read them, but returns the size of the last
   piece, which `network_receive_send` compares with the whole size: a request
   that TCP delivers in two pieces is complete, yet the server closes the
   connection of a client that is alive, and a secundary promotes itself.

`ReplicasAgree` therefore excludes the keys in `exposed`, and only those.

## 5. Proofs

TLAPS proves these theorems for every value of the constants: any finite set of
keys, any values, clients, connections and slots, any number of buckets with any
hash function into them, any number of crashes and any initial file.  They cover
the type invariant and every safety property that the passing runs check, and
the refinement; only liveness is left to TLC.

| Theorem | Module | Statement |
|---|---|---|
| `TypeCorrect` | `PrimaryBackupTypes` | `Spec => [](TypeOK /\ BlockedOK)` |
| `SafetyInductive` | `PrimaryBackupSafety` | `Spec => []SafetyInv` |
| `NoTwoReplicatorsHolds` | `PrimaryBackupSafety` | `Spec => []NoTwoReplicators` |
| `TransferFromPrimaryHolds` | `PrimaryBackupSafety` | `Spec => []TransferFromPrimary` |
| `LiveBackupPointerHolds` | `PrimaryBackupSafety` | `Spec => []LiveBackupPointer` |
| `AgreementInductive` | `PrimaryBackupAgreement` | `Spec => []AgreementInv` |
| `ReplicasAgreeHolds` | `PrimaryBackupAgreement` | `Spec => []ReplicasAgree` |
| `AckedInductive` | `AckedWritesProofs` | `AckedSpec => []AckedInv` |
| `AckedSurvivesHolds` | `AckedWritesProofs` | `AckedSpec => []AckedSurvives` |
| `ListAdd`, `ListRemove` | `HashTableProofs` | the list stays descending and counted, and gains or loses exactly one key |
| `TableInductive`, `TableTypes` | `HashTableProofs` | `Spec => []TableInv`, `Spec => []TypeOK` |
| `BucketsSortedHolds`, `CountsExactHolds` | `HashTableProofs` | `Spec => []BucketsSorted`, `Spec => []CountsExact` |
| `TableRefines` | `HashTableProofs` | `Spec => ImplementsKVStore` |
| `LoopInductive` | `PollLoopProofs` | `Spec => []LoopInv` |
| `SlotsExactHolds` | `PollLoopProofs` | `Spec => []SlotsExact` |
| `RoundServesAllHolds` | `PollLoopProofs` | `Spec => RoundServesAll` |
| `RequestRoundTrip` | `WireProofs` | every request is taken by `invoke` for what the client asked |
| `ReplyRoundTrip` | `WireProofs` | every reply is taken by the stub for what `invoke` answered |
| `CallInductive` | `PollLoopProofs` | `Spec => []CallInv` |
| `CallAnsweredHolds` | `PollLoopProofs` | `Spec => []CallAnswered` |
| `PollTypeOKHolds` | `PollLoopProofs` | `Spec => []TypeOK` |

Assumptions: the ASSUMEs on the constants, which TLC evaluates in the runs: in
the replicated system `KeyValAssumption`, `SocketsAssumption`,
`ServerAssumption` and `ClientAssumption`, with `UnknownAssumption` for
`AckedWrites`; in the table `KeyOrder` (keys are
compared as integers, which stand for the order of `strcmp`) and
`HashAssumption` (at least one bucket, and a bucket for every key); in the poll
loop `PollAssumption`, `WireAssumption` and `MessagesFit`, the limits of the wire
format.  `MessagesFit` bounds the size of the messages, not what is read back
from them, which is what the round trips prove.

**The servers' roles.**  `NoTwoReplicators`, `TransferFromPrimary` and
`LiveBackupPointer` are not inductive.  The only ways to
become a primary with a backup are to serve an OC_UP and to end `primary()`
without finding another primary.  So the invariant must know:

- `UpRequests`: while an OC_UP waits to be served by one server, the other is
  not a primary with a backup, and no OC_UP waits in the other direction.  This
  has to hold for a request whose sender was killed since it sent it, which is
  still served.
- `AskOutcome`: while S1 waits for the answer to OC_STATUS, it cannot miss that
  S2 forwards, or is about to: either S2 has not answered, or it said PRIMARY,
  and the connection is still open.
- `BootConn`, `ServerEnds`, `Modes`: which process holds which end of the
  connections involved, and how the globals follow the program counter.
- `OwnLinks`: the descriptors a server keeps in `link`, in the thread's local
  variable and in the middle of a forward are distinct where closing one would
  close another, and its own.  `LiveBackupPointer` follows from it.
- `ClientEnds`: clients close only their own connections and never send OC_UP.

`PrimaryBackupTypes` and `PrimaryBackupSafety` show that each action keeps each
conjunct; the first of them has the lemmas on connections.  `SafetyInv` was also
checked with TLC on the instances of `startup`, `failover` and `rejoin`.

**The replicas.**  `ReplicasAgree` compares the tables of a primary and of its
backup once both are in the loop.  It says nothing about the time before, when one
server copies the other's table and a write or its forward may be anywhere, so
`AgreementInv` adds to `SafetyInv` what that time leaves behind:

- `OneCall`: a connection carries a request or a reply, never both; a server's
  own connection carries something only while the server is blocked on it, and
  an idle client has nothing outstanding.
- `Asking`: a server at its start has asked on `chan` what its program counter
  says and no more, so a reply it reads there answers that question.
- `ForwardOK`: a write in the middle of a forward has been applied at the
  primary, and the backup's answer is still to come; applying it once more to a
  table that has it changes nothing.
- `CutTransfer`: once the transfer of a server was cut short, the other server
  neither forwards to it nor has an OC_UP of it to serve.
- `CopyOK`: what the two tables agree on at each stage: the key list against the
  source's table (`KeysListed`), the keys fetched so far (`Fetching`), the
  complete copy before OC_UP is answered (`Copied`), and the running backup
  (`Backed`), always except for keys that are `Unsettled`, by a forward under way or
  because they are `exposed`.

A step that neither touches a table nor moves a server between these stages keeps
`CopyOK` by the frame lemmas (`QuietAgrees`, `AnswerAgrees`, `StartingAgrees`);
the steps that do (a served write, a forward, a reply to GET, the OC_UP, a kill)
have a proof each.  `AgreementInv` was checked with TLC first, on an instance with one
key, two kills and two inputs (3.7 million states).

**The answered writes.**  `AckedSurvives` is about servers in the loop; what is
known of a key may at other times be held only by a copy that is being made, or by a
reply that a dead server left in a connection.  `AckedInv` adds to
`AgreementInv`:

- `FlightUnknown`: nothing is known of a key while a write on it is in flight, so
  no step that changes a table contradicts an earlier answer.
- `Holds`: a server whose table is complete (in the loop, forwarding, or about
  to send OC_UP) has what is known of every key that it must have (`Binds`): of the
  exposed ones only when no other server has a complete table, since a
  death then makes nothing of them known.
- `ListHolds`, `FetchHolds`, `Fresh`: the same for a server that copies from one
  that has died.  The code goes on with the last reply if it was sent before
  the death: the key list of an empty table, or the value of the last key, completes
  the copy.
- `AnswerTrue`: the answer a server keeps while it forwards says what its table
  has, so that what becomes known at the end of the forward is true there; that it
  is true at the backup follows from `Backed` and `Copied` of `AgreementInv`.

A step that answers no write is covered by frame lemmas (`QuietHeld`, `RestHeld`,
`OtherHeld`).  At a write that is answered at once (`AnsweredWriteHeld`) the key
becomes exposed and only the server that answered has to hold it; at the end of a
forward (`ForwardDoneHeld`) the key stays unexposed only if the backup is still
believed in, and then the two tables agree on it.  At a death (`GoneHeld`) a
reply left behind is right because it was right while its sender lived.

The proof corrected the model: an earlier `acked` took a key for known while a
client with a write on it was between two tries, which only a second client can
show, and compared only the tables of primaries.  `AckedInv` was
checked with TLC first: on the instance of `failover`, and with two kills and
the file naming the primary (4.6 million states).

**The table.**  `TableInv`: every list is descending and its counter is its length
(`Exact`), a bucket has only keys that hash to it, `quantity_entry` is the number of
keys in all the buckets.  `ListAdd` and `ListRemove` say what one call of
`list.c` does to a list, and so to the set of keys of its bucket.
From this each request on the table is a step of `KVStore` on `Contents`,
with the same answer.  The exact counter is needed for more than
`CountsExact`: `table_get_keys` and `table_size` answer from it.

**The poll loop.**  `LoopInv` is `LoopTypes` with

- `ScanOK`: `result` is at least the number of positions that poll reported and
  the scan has still to reach, the position being served is one of them, and
  the positions to reach are in use.  `RoundServesAll` follows: the loop cannot
  end on `result` while a reported client is unserved;
- `ArrayExact`: `number_clients` is the number of slots in use, and the backlog and
  the accepted connections are disjoint and together the open ones;
- `NewOK`: a connection that is not made yet has no end at the server.

**The messages.**  A message is a sequence of parts, each at a position that
depends on the lengths before it.  `Holds(b, i, x)` says that part `x` is in the
buffer from position `i` on; `Parts` splits it at a concatenation, `Piece` reads it
back, `ShortAt` and `IntAt` read a number back (`Digits`, `IntBytes`: htonl and ntohl
of any int, negative ones included).  So each kind of message has a lemma that it
`Arrives`: its bytes are bytes, its size is a positive int, and it is parsed as
what it was.  The list of keys needs two inductions on its length, one for the
loop that writes (`Joined`: every key is behind the keys before it) and one for
`msg_buf` in the loop that reads (`KeysWalked`).  They are proofs by a least
counterexample (`Induction`, from the well-foundedness of the naturals, for a set
instead of a predicate), because the library's induction theorem takes an
operator as a parameter.  For the same reason the loop of `KeysFrom` is a recursive
function and not a fold.  `AnswerReturns` then goes through the replies of
`invoke`: the size of a table and the results are ints, and the list of keys,
which travels as a sequence, comes back as the same set.

**The calls.**  `CallAnswered` compares the end of a call with its beginning; the
two are connected by the bytes in between.  `CallInv` adds to `LoopInv`, for each
connection (`ConnOK`):

- `Framed`: what is under way to the server is nothing, the size of one request, or
  its size and its bytes, less what the server has read (`Half`, `Whole`).
  Then each number that the server reads as a size was written as one.  This holds for a
  client that has failed or ended in the middle of a call, too;
- `NewOrIdle`: between two calls nothing is under way, in either direction, so
  that no call leaves bytes behind for the next one;
- `SizeWritten`, `Waiting`, `Reading`: what is under way in each of the three
  calls of `network_send_receive`, and that `served` is the request of this call
  with a reply that the stub takes for what it is (`Replied`).  The size of the reply
  without the reply is only possible while the server is about to write it, or
  after it was killed: hence the exception in `CallAnswered`;
- `EndsOK`, `GotOK`: which end is open, and what was returned;
- `LoopLimits`, for the type invariant: `result` and `j` stay within the array, because
  no more positions are ready than there are, and `result` counts at most one
  event more than it has to.

The server may drop the connection of a waiting client, when its
request comes in two pieces: `DropCalls` covers it, and the client then sees the
end of the stream.  Every step concerns one connection, and the others are covered by
`SameKeeps`.  `CallInv` was checked with TLC first, on the instance of
`poll_loop` (61,744 states) and an earlier form of it with three calls.

Model-checked only: the liveness properties `CallsReturn`, `BootsEnd`,
`FailureDetected`, `WaitingIsAccepted` and `AcceptedCallReturns`, because the prover
has no rule for fairness and ENABLED.

## 6. What is not modelled, and why

- Failure of `malloc` and `strdup`: assumed to succeed.
- Data races below the level of one assignment: `current_backup` is written
  and read as a whole.
- TCP's own failures (resets, partitions, half-open connections): the servers'
  start scripts put them on a LAN or on one machine, and the code has no
  timeout that would react.  A read or a write that fails does so because the
  other end is closed; the error of a read (`read_all` returning -1) is left
  out, and with it the use of an uninitialised size after it
  (`table-server.c:102`).  In the replicated system a connect to a listening
  server succeeds; `PollLoop` has the backlog.
- In `PollLoop`: forwarding, OC_UP and the file, which are the subject of
  `TableServer`; a `write_all` that needs several writes, since a blocking
  socket takes all of it or fails.
- Parsing bytes that no stub sends: wrong lengths, unknown opcodes.
- The `print` command, printing, wording, and the values that the `rtable_`
  functions return, which `table-client.c` ignores.  The second try of
  `rtable_put` (`client_stub.c:128`) follows an error reply to a PUT, which
  only a failed `malloc` in the server causes.
- The overrun of the address buffer at `table-server.c:238`, the short array in
  `table_get_keys`, negative bucket numbers and the key `!`: listed as hazards
  with the reason why no property covers them.
- `data.c`, `entry.c` and the destructors: memory copies and frees without a
  state machine.

## 7. State of the work

Done: the replicated system, its refuted claims, the table, the poll loop with
the bytes of its messages, and the proofs of section 5, which leave no safety
property of a passing run unproved.  What would come next:

1. One module for the poll loop of a primary, that is, the slots and the bytes of
   `PollLoop` with the forwarding of `TableServer`; the two are connected by their
   common `invoke` only.
2. What the `rtable_` functions return after a retry (the hazard at
   `client_stub.c:246`), once a caller looks at it.
