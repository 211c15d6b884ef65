# A TLA+ model of `example/` and of the Open MPI code it runs on

The repository holds a small MPI program in C (`src/example/`: a father that
spawns children and exchanges temperatures with them) and a complete copy of
Open MPI 3.1.2 (`src/openmpi-3.1.2/`), the library and runtime the program is
compiled against and started with. This directory is the formal model of the
program and of the concurrent core of the library: TLA+ modules translated
from the C code, TLC configurations that check them on small instances, and
proofs for the prover TLAPS. Paths below are relative to the repository;
`ompi/...`, `opal/...` and `orte/...` are under `src/openmpi-3.1.2/`.

## 1. The system and its parts

### The program, `src/example/`

| part | state | operations |
|---|---|---|
| `jalon1.c`, the father | loop index `i`, `nombre`, `return_value` (a `char`) | init, spawn of 1 `coordinateur` and `argv[1]` `prg1`, one send to each of the ranks 0..3, one receive from each, finalize |
| `coordinateur.c`, `prg1.c`, the children | `temperature`, `return_value` | init, (with a father) receive the temperature, answer, finalize |
| `prg2.c` | as `prg1.c` | same shape; nothing starts it |
| `essai.c` | none | prints rank and size |
| `make.sh`, `hostfile` | 8 slots on one host | `mpirun -np 1 ... ./jalon1 3` |

Father and children only interact through MPI: the collective connect of
`MPI_Comm_spawn_multiple` and of the children's `MPI_Init`, two messages per
served child, the fence of `MPI_Finalize` over each process's own
`MPI_COMM_WORLD`, and the abort of the whole job when `MPI_ERRORS_ARE_FATAL`
strikes. What is hard: the ranks of the loops are constants while the number
of children is an argument; a standard-mode send may or may not wait for its
receive; four bytes travel from and to a `char`; an abort finds the other
processes anywhere.

### The library

Open MPI is layered: `ompi` (the MPI API, requests, communicators, the `ob1`
message engine) over `opal` (threads, containers, shared-memory transport)
over `orte` (launch, mapping, errors). The processes of the program sit on one
host, so that a message goes: `MPI_Send` - `ob1` - the `vader` transport, whose
fragments come from an `opal_free_list`, itself an `opal_lifo`, and travel in
the shared-memory fifos and fast boxes - the receiver's `opal_progress` - the
matching of `ob1` - the request's completion - the thread that waits for the
request. Each new communicator, the father's and children's among them, gets a
context id by which `ob1` finds it. The concurrent pieces of that path are:

| component | source | state | hard behaviour |
|---|---|---|---|
| waiting for several requests | `ompi/request/req_wait.c`, `request.h` | `req_complete` of each request, a sync object on the caller's stack | completions race with the caller leaving; the object must outlive the threads that use it |
| waiting threads | `opal/threads/wait_sync.{h,c}` | list of waiting threads, count and flag and lock and condition of each | lost and spurious wake-ups, passing the progress on, destruction against signal |
| lock-free stack | `opal/class/opal_lifo.h` | counted head pointer, `next` of the items | ABA, stale reads, retries |
| free list | `opal/class/opal_free_list.{h,c}`, `opal/threads/condition.h` | items, counts of allocated items and of waiters, lock, polled condition | growth by several threads at once, lost wake-ups, failed allocations |
| shared-memory fifos | `opal/mca/btl/vader/btl_vader_fifo.h`, `btl_vader_component.c` | head and tail of each process's fifo, `next` and flags of the fragments | writers in several processes against the one reader, fragments that come back and are sent again |
| fast boxes | `btl_vader_fbox.h`, `btl_vader_send.c`, `btl_vader_sendi.c`, `btl_vader_component.c` | a ring in shared memory per sender and receiver, offsets on both sides, fragments pending for room | full or empty, stale headers, data taken for a header, wraps; the box and the fifo used together; locks taken in two orders |
| matching | `ompi/mca/pml/ob1/pml_ob1_recvfrag.c`, `_recvreq.c`, `pml_ob1.c`, ... | next number of each source, fragments out of turn, unexpected fragments, posted requests | messages in any order by several threads, numbers that wrap, probes and cancellations, a communicator that does not exist yet |
| context ids | `ompi/communicator/comm_cid.c`, `comm_request.c`, `opal/class/opal_pointer_array.c` | ids in use in each process, the lowest creation under way, the active requests | agreement of processes with other ids in use and other creations under way, failed rounds, ids running out |

Each has, as correctness properties: nothing lost, nothing twice, nothing used
after its end; it implements a simple sequential object (stack, mailbox, lane,
matching queue, allocator); who waits is woken; an operation ends.

Parts of the library listed but not modelled are in section 7. The hazards,
each with its line and the properties that cover it, are in `PROJECT.json`.

## 2. The modules

| module | models | against |
|---|---|---|
| `Jalon` | the program with the MPI semantics it relies on | `jalon1.c`, `coordinateur.c`, `prg1.c`; `dpm.c`, `comm_spawn_multiple.c`, `send.c`, `pml_ob1_isend.c`, `ompi_mpi_finalize.c`, `ompi_mpi_abort.c`, the mapper and the error manager |
| `JalonProofs` | its theorems | |
| `RequestSync` | `ompi_request_default_wait_any`, `_all`, `_some` against `ompi_request_complete` | `req_wait.c`, `request.h`, `wait_sync.h` |
| `RequestSyncProofs` | its theorems | |
| `WaitSync` | `ompi_request_wait_completion` and `ompi_sync_wait_mt` for several threads | `request.h`, `wait_sync.h`, `wait_sync.c` |
| `WaitSyncProofs` | its theorems | |
| `Pile` | abstract: a shared stack whose items change hands | what `opal_lifo.h` promises |
| `OpalLifo` | `opal_lifo_push_atomic`, `opal_lifo_pop_atomic` | `opal_lifo.h` |
| `OpalLifoProofs` | its theorems | |
| `FreeList` | `opal_free_list_get_mt`, `_wait_mt`, `_return_mt`, `_grow_st` | `opal_free_list.{h,c}`, `condition.h` |
| `FreeListProofs` | its theorems | |
| `Boites` | abstract: one mailbox per process, first in first out | what `btl_vader_fifo.h` promises |
| `VaderFifo` | `vader_fifo_read`, `_write`, `_write_ep`, `_write_back`, handling and return of a fragment | `btl_vader_fifo.h`, `btl_vader_component.c`, `btl_vader_frag.h` |
| `Canal` | abstract: two lanes from one process to another, first in first out each | what vader promises a pair of processes |
| `VaderFbox` | `mca_btl_vader_fbox_sendi`, `_check_fboxes`, `_try_fbox_setup`, `_sendi`, `_send`, `vader_fifo_write_ep`, progress of the pending fragments and of the receiver | `btl_vader_fbox.h`, `_endpoint.h`, `_fifo.h`, `_send.c`, `_sendi.c`, `_component.c` |
| `VaderProofs` | the theorems of `VaderFifo` and `VaderFbox` | |
| `FragsOrdonnes` | the list of fragments out of turn: insertion, merging of ranges, removal of the head | `pml_ob1_recvfrag.c` |
| `Appariement` | abstract: the matching of the messages of several sources with requests, by MPI's order | what `ob1` promises |
| `Ob1Match` | arrival of a message, matching, draining of the messages out of turn, start of a receive or probe, matched probe, cancellation, `mca_pml_ob1_add_comm` | `pml_ob1_recvfrag.c`, `_recvreq.{c,h}`, `_irecv.c`, `_isend.c`, `_iprobe.c`, `_comm.{c,h}`, `pml_ob1.c` |
| `Ob1MatchProofs` | its theorems | |
| `Attribution` | abstract: a new communicator gets, at one instant, an id free for all its processes | what `comm_cid.c` promises |
| `CommCid` | `ompi_comm_nextcid`, `_getnextcid`, `_checkcid`, `_check_flag`, `ompi_comm_request_progress` | `comm_cid.c`, `comm_request.c`, `opal_pointer_array.c` |
| `CommCidProofs` | its theorems | |
| `MC*` | TLC instances; `MCVaderFifo` says who owns each fragment, `MCVaderFbox`, `MCOb1Match` and `MCCommCid` list the situations ("modes") a run starts from | |

Names are the source's: variables are the C variables (`return_value`,
`req_complete`, `fl_num_waiting`, `fifo_tail`, ...), control points are named
for what comes next. The rest follows the French of `example/`.

**Composition.** `WaitSync` is what `RequestSync` waits in: its `Attendre`
needs only that `SYNC_WAIT` returns once the count is 0, which is `Retour` of
`WaitSync`; `WaitSync` in turn uses the completion of one request, which
`RequestSync` takes apart further. `FreeList` uses the stack with pushes and
pops atomic, which is what `OpalLifo` is shown to implement (`PileSpec`).
`VaderFbox` takes the peer's fifo as the mailbox that `VaderFifo` is shown to
implement (`BoitesSpec`); what the two lanes of `Canal` deliver to a receiver,
each in order but not one with the other, is the out-of-order arrival that
`Ob1Match` starts from, with any number of threads. Out of it `Ob1Match` makes
the order of sends that `Jalon` calls a channel (`AppariementSpec`), and the
completion of a receive there is where `RequestSync` and `WaitSync` begin.
`Ob1Match` has one communicator, whose id is that of `CommCid`; the messages
that come before it exists (`pending`) are those of a process that finished
`CommCid`'s agreement earlier than the receiver. The five refinements are stated
in the detailed module as `INSTANCE ... WITH` under the name of what they
implement (`LaPile`, `LesBoites`, `LeCanal`, `LAppariement`, `LesCids`) and
checked as the property `PileSpec`, `BoitesSpec`, `CanalSpec`,
`AppariementSpec`, `AttributionSpec`.

**Atomicity.** Each access to shared memory that another thread can see is a
step of its own (read of the counter, read of the pointer, write of `next`,
compare-and-swap). Two accesses are one step only when nothing another thread
does can fall between them, and the comment says so: the two reads of the head
in `LireTete` (once the head is not free only the reader changes it), the
compare-and-swap and swap in `WaitSync`'s `Completer` (with a single waiter
that never detaches), a critical section of a pthread mutex with no other lock
inside. In `Ob1Match` what is done under `matching_lock` is one step, and what a
thread does after it has let go of the lock (completing the receive, looking at
`frags_cant_match`) another. The search for the communicator of a message and its append to
`non_existing_communicator_pending`, which no lock holds together, are two steps (`Recoit`, `Garder`). In `CommCid` a callback of the progress is one step:
`ompi_cid_lock` is only tried, and a process runs one callback at a time.
x86_64 with the barriers of the code is taken as sequentially
consistent; reordering by weaker memory models is not modelled.

**Abstracted data.** `FragsOrdonnes` writes the two linked rings of the C list as
a sequence of sequences; the operators were compared with the compiled C
functions on some two million operations, the wrap of the numbers included,
without a difference. Data in a fast box are "data of message m" with the number that their
bytes show where a header has its own, if any (the messages whose data show one, and all
numbers they could show, are part of a mode, `leurres`); offsets are in
units of the alignment and a message takes one to three units. Payloads, tags, statuses, types, addresses relative to a
segment, log output. Temperatures and the bytes around the `char` are kept
because the program's receive writes them where they do not belong: what the
compiler puts after `return_value` is a choice between the neighbouring
variable (as in the binary in the repository) and padding.

**History variables.** `pile`, `proprio` (`OpalLifo`), `file`, `tenu`
(`VaderFifo`), `publies`, `recus`, `egare` (`VaderFbox`), `traites` (`Ob1Match`) are read by no action of the code except for who may push an
item or send a fragment (the caller owns it); they are what the abstract
specifications speak about.

**Variants.** Some modules define, just before an operation, a variant of it
with a plausible slip (`PopCasSansCompteur`: the counter is not incremented).
No specification uses them. Putting one in the operation's place must break
the property that `PROJECT.json` pairs it with ("mutants").

## 3. The runs

`tlc -config X.cfg M`, M the MC module. All bounds are CONSTANTS. Each component
has one type invariant, `TypeOK` (`TypeFbox` in `VaderFbox`, whose names have to be
others than `VaderFifo`'s for their theorems to be in one module). `MCJalon` and `MCOpalLifo` check it by itself;
in the other modules it is the first conjunct of one of the invariants
(`PasDePointeurMort`, `ProgresEnTete`, `Chaine`, `BorneAllocation`,
`UnSeulEndroit`, `Integrite`, `PasDeFuite`) and also says, in a line each, that a
completion is not undone, that the counters of waiters are right, that locks are
held where the code holds them and that messages are taken up in order.

| run | instance | shows |
|---|---|---|
| `MCJalon` | `argv[1]` from 1 to 4, 5 or 8 slots, every send eager or not; started by `make.sh` or children alone | with three prg1, the program as shipped: everything sent is received before the father says so, every process ends; with fewer, the send to a rank that does not exist aborts the job, with four and 5 slots the spawn fails, and the abort reaches every process, also one blocked in a send or a receive; with four and 8 slots the father ends and no child gets past its fence |
| `MCRequestSync` | any, all or some of 3 requests, any of them null, with or without errors | no request keeps a pointer to a dead sync, what is returned is complete, no completion is undone, wait_all's sync outlives its completions, the call returns (wait_all with errors apart) |
| `MCWaitSync` | 3 waiting threads, 1 external | one progresses, it is the head; no lost wake-up; the sync of a finished wait is referred to by no one; every wait returns |
| `MCOpalLifo` | 2 threads, 3 items, 3 pops | the chain is the stack; refinement of `Pile`; NULL only when empty; every operation ends |
| `MCVaderFifo` | 3 processes, 3 fragments, two of one owner | pointers are the queue; a fragment is in one place; refinement of `Boites`; a fragment sent comes back; no deadlock |
| `MCFreeList` | 3 threads, a maximum of 3 items grown by 2, payloads of 3 bytes in pages of 8, failing allocations, 3 calls in all | never more items than the maximum and the rest of the last page; counts are exact outside a growth; waiters are counted; nobody keeps the lock or is kept from it |
| `MCOb1Match` | 2 sources, up to 4 messages, up to 3 requests, 1 to 3 threads, numbers modulo 8; seven modes | a source's messages are taken up in the order sent; a message goes to the oldest request that accepts it, a request to the oldest message; neither passes the other by; none is forgotten out of turn, lost or doubled; refinement of `Appariement`; all this until a receive is cancelled with its message, and one is only between its match and `req_match_received` |
| `MCVaderFbox` | 2 senders and the progress, 1 reader, a box of 7 units, at most 5 messages, in three of the 39 modes with data that show the number expected | until the reader takes data for a header: what it handles is intact, a thread's messages overtake only while the box is set up, refinement of `Canal`, every message is received; it takes data for a header only between a publication and the clearing that follows; pending fragments have their endpoint in the list |
| `MCCommCid` | 3 processes, 3 creations, ids below 10, some in use; 14 modes | all members have the id when one does; failed rounds leave nothing reserved; refinement of `Attribution`; creations asked for in order end |
| `MCOb1Roulement` | 4 messages over the wrap | **violated**: a fragment whose turn it is stays out of turn (section 6) |
| `MCRequestSyncVivant` | 3 requests, no errors | **violated** by wait_any: the sync dies while a completion still has it |
| `MCFreeListAttente` | 2 threads, 1 item | **violated**: a waiter misses the return |

**Why these bounds are enough to be interesting.**

- `Jalon`: 1 and 2, 3, and 4 prg1 are less than, as many as and more than what
  the father's loops serve; 5 slots are one too few for four prg1. `MaxProg1` and
  `Slots` bound what is tried, and the proofs cover all of it.
- `RequestSync`: three requests are one found complete, one completing before
  the cleaning loop reaches it and one after; the two-request cases are inside
  (null requests).
- `WaitSync`: three waiting threads are a head, its successor and one behind
  it; the external thread completes a request while its waiter is anywhere.
- `OpalLifo`: the ABA order needs two items and a thread that sleeps between
  its read of `next` and its swap while others pop both and push one back;
  three pops by two threads allow it, and the mutant without the counter is
  caught by it. The third item is what a stale `next` may put back.
  `MaxPops` bounds the counter, hence (an item must be popped to be pushed
  again) the pushes. The proofs have no such bound.
- `VaderFifo`: two writers and a reader on one fifo, and a second fragment of
  the same owner behind the first; no bound on the number of trips.
- `FreeList`: growth by 2 towards 3 takes a partial growth at the limit; three
  threads are a waiter, one that grows and one that returns, or two waiters and
  one that returns. The list starts with what it was asked for, from nothing up
  to its limit, so that three calls (`MaxAppels`, in all) are enough for each of
  these. With buffers of 3 bytes in pages of 8 a growth by one item makes two, one
  by three makes five, and the list passes its maximum by one or by two, the most
  that is possible; the growth after that wraps around (`SizeMod`, 64 for 2^64).

- `Ob1Match`: two sources are what a receive from any source has to choose from;
  four messages of one source out of turn make up to two ranges and all the
  merges; three over the wrap put a range on each side of it. The modes each
  bring one difficulty (their comment in `MCOb1Match` says which), since all
  together are too many states. `Modulo` stands for 2^16: what counts is that it
  is larger than the messages under way, and that the numbers pass it.
- `VaderFbox`: seven usable units hold two messages of three units and leave an
  end too short for a third, so that skipping, a full box and both wraps happen;
  `PollCount` 2 makes the reader stop in the middle. `Modulo` is not less than
  the messages of a lap, as in the code; the proofs need twice the messages of the
  instance (section 5), which the run's instances with four and five messages
  do not have and those with up to three do. Two senders are one that sets the box
  up and one that uses it at once. In `ModesLeurres` the box has wrapped and the data of
  a message of the lap before show the number of one that follows.
- `CommCid`: three processes with different ids in use need more than one round; three
  creations under overlapping communicators give each process one of another's
  in its way. `MaxCid` 10 leaves room for all, and the full tables are modes.

`CHECK_DEADLOCK FALSE` is used where the system may really stop: `Jalon` with
four prg1 (children hang in the fence), wait_all with errors (a failing call
hangs, section 6), and the other modules, where finitely many calls or messages
end or a bound is reached.

No run uses symmetry: the runs that check a liveness property cannot, and the
indices, ranks and owners of most are told apart.

## 4. Fairness

- `Jalon`: every process is run by the operating system and a blocked MPI call
  progresses once it can (weak fairness of the father and of each child; one
  condition per process, since a process is sequential). The daemons kill an
  aborted job's processes (`Tuer` is part of a child's steps).
- `RequestSync`: the caller runs, and a completion that has begun goes on; that
  a completion begins is never assumed, `Satisfait` is the
  hypothesis of `RetourSansErreur`.
- `WaitSync`: a thread is in one place, so that one strong fairness per thread
  says that it runs, that it gets a lock that others take again and again, and
  that it goes on once signalled. A spurious wake-up is possible and never
  assumed. The head's `opal_progress` completes what the network delivers; an
  external thread only finishes the completion it has begun.
- `OpalLifo`: a thread inside an operation runs; nobody has to start one. The
  bound on pops makes `OperationsFinies` the statement that retries are paid
  for by others' successes (lock-freedom), not that a thread never starves.
- `VaderFifo`: each process polls its fifo again and again, and a write that has
  begun goes on.
- `VaderFbox` (`ToutRecu` is "all is received, or data are taken for a header"): both processes call `opal_progress` again and again and each sending
  thread goes on; weak fairness, since no lock here is taken for ever by others
  while one waits (the number of messages is finite).
- `Ob1Match`: none; it has no liveness property. What would be lost is a fragment
  that is left out of turn, and `AucunOubli` says at each instant that a thread
  is about to look.
- `CommCid`: each process calls `opal_progress` and each of its threads asks for its
  next creation when the one before has ended.
- `FreeList`: threads run, return the item they hold, and get a lock that is
  free again and again.

## 5. What is proved

By TLAPS, for every value of the constants; `tlapm M.tla`.

**`JalonProofs`** (assumptions: `MaxProg1 \in Nat \ {0}`, `Slots \subseteq Nat`,
`Indetermine` no integer). `TypeTheorem`,
`ToutRecuTheorem`, `SortieGroupeeTheorem` and `AvortExpliqueTheorem` are the invariants of `MCJalon` for every number
of children and of slots and both kinds of send. None is inductive: that a
channel is empty when the father has finished depends on where each child
was. `Inv` says, for each child, what its channels and its temperature are
given how far the father's two loops have come (`Envoye(c)`, `Recu(c)`):
before its receive the temperature is in the channel iff it was sent; after
its answer, the answer is in the channel iff it was not received; and a child
past its fence knows all others have been served. `PereInv` ties the father's
position to `nombreProg1` (it is in the receiving loop only if rank 3 exists),
`SansPereInv` says that nothing happens without a father. The preservation is
proved once per part, each with one step per action; the lemmas
`Progression*` say how `Envoye` and `Recu` change when the father moves on.

**`OpalLifoProofs`** (assumptions: the ghost is no item, NULL is neither, and
the lifo is no thread). For any set of items and of threads and any number of
pops: `ChaineTheorem` (the chain is the stack), `PileTheorem` (refinement of
`Pile`), `NullSiVideTheorem`, `TypeTheorem` (the head is never NULL, whatever
stale `next` a pop has read). The chain alone is not inductive: a pop installs
a `next` it read earlier. `Inv` adds `TeteLue`: while the counter a pop has read
is still the head's, the item it read has not left the lifo, and the `next` it
read is still that item's (only a pop takes an item out, and every pop
increments the counter); `SuivantLu`: what a push has read is in its item's
`next` until its swap; `ItemAuThread`: the item being pushed or detached is the
thread's own, so that no one else writes its `next`. `PopCasSommet` then says
that the item of a successful pop is the top of the stack. Each action's effect
on the sequence is proved index by index (`Dessus`, `Dessous`). The counter is
a natural number: the 64-bit wrap-around within one pop is excluded by that.

**`RequestSyncProofs`** (assumptions: at least one request; whether errors
happen is a Boolean). `PasDePointeurMortTheorem`, `RenduCompletTheorem` and
`SyncVivantAllTheorem`, for any number of requests and all three calls. None is
inductive: that no request has the sync's address after the call depends on
where the loops are. `Inv` says so: `AdresseInv` gives, for the position of the
arming and of the cleaning loop (`ANettoyer`), which requests may have the
address; `BoucleInv` and `RenduInv` what the loops have counted and found;
`CompteInv` bounds `sync.count` below by the armed requests whose completion
has still to decrement it (`Restants`), and equals them for a wait_all without
errors; `SignalInv` follows, that one thread at most brings that count to 0 and
uses the sync to signal.

**`WaitSyncProofs`** (assumptions: waiting and external threads are distinct,
and nobody is neither). `PasDeReveilPerduTheorem`, `ProgresEnTeteTheorem` (the
assertion of `wait_sync.c:87`) and `SyncVivantTheorem`, for any number of
threads and with spurious wake-ups. `ListeInv`: which threads the list holds,
given where each is, and that the holder of the list's lock has just left the
head; `VerrouInv`: the holder of a sync's lock is its owner between its second
test and its sleep, or the thread that signals it; `TravailInv` and
`RequeteInv`: one thread at most completes each request, and how far it has come
says what `count` and `signaling` are. That nothing refers to the sync after the
wait follows from the last, since the owner waits for `signaling` to be cleared
and that is the last access.

**`FreeListProofs`** (assumptions: finitely many threads, positive
`MaxToAlloc` and `NumPerAlloc`, any size of the payload, and a `size_t` that is a
whole number of pages and has room for the whole list). `BorneAllocationTheorem`:
never more items than `fl_max_to_alloc` and `Exces`, whichever allocations fail,
and exact counters. `Exces` is what the last page has room for, since
`opal_free_list_grow_st` rounds the payload up to pages after it has limited the
growth: the code does not keep its maximum (section 6). `LotOrdinaire` bounds a
growth of a list that has not passed its maximum; `LotDeborde` says that past it
the subtraction of `opal_free_list.c:174` wraps around, and that the rounding then
brings the growth to 0, which is why the excess does not add up. The bound
alone says nothing of a growth that has pushed items and not counted them yet:
`CroissanceInv` does (`Items` is what is allocated plus what this growth has
pushed). `SignalInv` says that `c_signaled`, which a return increments without
the lock from a value that may be out of date, is not 0 when the lock's holder
decrements it. The two counts of waiters are cardinalities, which is why the
set of threads has to be finite.

**`VaderProofs`**, the fifos (assumptions: each fragment has an owner, the fifo is no
process, `FREE` no fragment). `ChaineTheorem`, `UnSeulEndroitTheorem` and
`BoitesTheorem` (refinement of `Boites`), for any number of processes and
fragments and however often these travel. `FilesInv`: a fragment is in its
destination's queue once and in no other; `ChaineInv`: the head, the tail and
the `next` fields are the queue, but for the link that a writer between its
exchange and its link still owes (`prev` says from where) and for the head
that the reader has emptied; `EcritInv`: in which direction each fragment
travels, so that its owner does not write to it while it is away; `LecteurInv`:
what the reader has in its hands is the first of its queue, until it takes it out.

**`VaderProofs`**, the fast boxes (assumptions: `Taille` at least 2, `Modulo` not less;
what a mode is; the progress is none of the sending threads). For any number of
threads, any size of the box, any messages and any `PollCount`. Three invariants,
each on top of the one before.

- `InvFbox` (`TypeFboxTheorem`, `AttenteInscriteTheorem`): what each thread has in its hands at
  each place, who holds which lock, that one thread at most is between the
  lock and the unlock of a box, and what it knows there of the room (a
  header is not longer than what is left). `AttenteInscrite` is one of its parts, `AttenteFbox`: what
  it takes is that `waiting` and the list are cleared and set in one hold of
  `pending_frags_lock`, whose holder is in `VerrousFbox`.
- `OrdreFbox` (`OrdreFboxTheorem`): of each thread's messages, those that the fifo delivered
  come before those still in the fifo, these before those in the box, these before
  those pending, and the one in hand after all. It holds since a thread that
  finds fragments pending puts its own behind them (`Send`), and since none goes by the
  fifo once there is a box but those that were on their way (`EnFifo`). With it no message is published
  twice, so that a finite number of messages bounds what goes into the box.
- `AnneauFbox` (`AnneauTheorem`): there are sequences `h`, `q`, `c` of the headers ever put into the
  box, skips included, of their places and of how many messages came before each.
  A place is a lap and an offset (`Places`), its high bit the lap's parity (`Offset`).
  The places are chained (`Suite`): each is where the header before ends, or the first of the next lap.
  What the sender knows to be read, what the reader has said, what it has handled and
  what the sender has written are four positions of this chain in this order
  (`AnneauPlaces`), the last at most a lap after the first (`Tient`); from this follows
  what `BUFFER_FREE` computes from two offsets and two bits (`LibreTour`), and that a write
  within it touches no header from the first position on, nor its data
  (`ChaineLibre`, `AnneauUnites`). The header that the reader takes is the next of the chain
  because of its number (`AnneauProchain`).

What the invariants say of the box is until the reader has taken data for a header (`~ egare`):
`check_fboxes` tests the bytes it finds for a tag and the number expected, and data may show
both, whatever the process sends. `AnneauVide`, a part of `AnneauFbox`, says what is where the
next header will be: a header or zero, or anything at all while a sender is between the
publication of the header before and the clearing of that place (`btl_vader_fbox.h:142` and
`:152`). `FenetreTheorem` follows, that data are taken for a header in no other interval
(`LeurreDansLaFenetre`). `SansLeurreTheorem` says that they never are if no data show a
number, in which case the other theorems hold without the restriction.

`IntegriteTheorem` and `DesordreAuMontageTheorem` follow from the three, and `CanalTheorem` is the
refinement, where data taken for a header break the lanes (`Rompre`) and nothing else does: `Publier` and `Write_fifo` are `Deposer` (the message is in no lane, by `OrdreFbox` after the
step), the `Sonder` that finds the header of a message and the `Poll_fifo` that takes a
fragment are `Retirer`, and no other step shows; that the message the reader has found is the oldest
of the lane is what `c` counts (`LusProprietes`).

`AnneauTheorem` and what follows from it are under `PeuDeMessages`: the process sends its peer
less than `Modulo / 2` messages (2^15) in the instance, so that no number is used twice (a
message uses one, and the end it may skip another). Some such hypothesis is needed. A header stays in
the box where later laps only skip over it, and the reader may look there between the
publication of the header before and the clearing of the place (`btl_vader_fbox.h:142` and `:152`): if just then
the numbers have come round to its own, it is taken for the next. With `Taille` and `Modulo` 5
and nine messages of one thread, TLC finds `Integrite` violated in this way. In the code
that takes 65536 headers in between, on laps that all end in a skip over
that place.

**`Ob1MatchProofs`** (assumptions: the shape of a mode; the wild cards are no
source and no tag; at least one source). `PasDeCoupleManqueTheorem`:
a posted request and an unexpected message that it accepts are never there
together, whatever the order of arrivals and the number of threads, numbers
that wrap included. `AnnulationFenetreTheorem`: with any number of
threads, a receive is cancelled with its message only between its match and
`req_match_received`, which the thread that matched it sets once it has let go of the lock;
what has been cancelled is never completed, matched or cancelled again. `MainsInv` is what it
needs: the request of a thread that has found a message in `recv_req_start` is in no other's
hands until that thread has returned it. Such a cancellation takes the request out of its list
a second time, after which the lists are not those of the model; `PasDeCoupleManque`,
`UnSeulEndroit`, `SansCroisement` and `AppariementSpec` say nothing from then on (`Rompu`), and
their theorems hold with any number of threads until then. With one thread, or without
cancellations, it never happens. The lists of
fragments out of turn and the loops of `mca_pml_ob1_add_comm` are recursive
functions, and their results have to be typed before anything else can be said.
Induction is done by hand: if a step were ill typed there would be a first one
(`PlusPetit`, from `WFMin` and the well-foundedness of the naturals), and the one
before contradicts it (`RecurrenceType`, `RecurrenceExiste`). `RequetesInv` adds
that a request which has been given a message and is not complete is in the
hands of a thread.

`EndroitsTheorem` and `UnSeulEndroitTheorem` say where each message is, with any
number of threads, whatever the order of arrivals, over the wrap of the numbers, before and after the
communicator exists. The first half is about the list alone:
`Append_ordonneGagne` (wherever the backward or forward search ended, whatever
was merged and whichever range became the head, the list holds what it held and the new fragment, each once, and the
numbers of a range follow one another) and `Sans_teteFragments`, from lemmas on
what `Tourner`, `Fusionner` and a range that grows or is inserted do to the
places of the fragments (`Gagne`). The second half is `EndroitsInv`:
`RangeeInv` (what is under way, out of turn and unexpected of a source, and what its requests
have, are pairwise disjoint and are together what it sent, with no message twice in a list; the number of messages
taken up gives the number expected next, and without overtaking the messages
taken up are the first ones in their order), `EnRoute` (network and messages kept
for the communicator), `DemandesInv` (each request has a message it accepts, and no two the
same) and `FilsInv` (the threads that have a request in their hands have
different ones). `RangeeInv` is a predicate of the state of the lists, a record, since
`mca_pml_ob1_add_comm` has to be followed through its loops: each turn of `Ranger` and
`Depiler` keeps it. Two hypotheses:

- `NumerosDistincts`: without overtaking a source sends at most `Modulo` messages (2^16 in the code)
  in the instance, starting from any number. Two messages of one number that
  are under way together are excluded by a comment of the code
  (`pml_ob1_recvfrag.c:90-94`), and with them no theorem can say which of the two
  is taken up;
- `EtiquettesDemandables`: a tag of a message that is not negative may be asked for, so that
  the receive made of a matched probe is a request.

`SansCroisementTheorem` is MPI's rule of order, under the same hypotheses. It is not
inductive: `CroisementInv` adds what may still happen to the requests that are
posted (none accepts what a later one has already got) and to the unexpected messages (no
request has got a message sent after one of them that it accepts). That a message taken up is
later than those taken up before it comes from `EndroitsInv`, that a request
takes the oldest and is the oldest from `Preneur` and `Convient`, and that nothing
posted accepts what is unexpected from `PasDeCoupleManque`.

`AucunOubliTheorem` says that a message whose turn has come is not left among those
out of turn while no thread is about to look, `Spec => [](SansRoulement /\ ~ Rompu => AucunOubli)`,
under the same hypotheses and in the modes where no source goes past the last number
(`SansRoulement`, a condition on the mode, which never changes; messages that overtake are
included). The condition is the one under which it is true: `MCOb1Roulement`
shows it violated over the wrap (section 6). Two facts carry the proof. `check_cantmatch_for_match` and
`mca_pml_ob1_add_comm` only look at the head of the list, which is enough if the ranges
are in order (`Triees`, `TeteDabord`): `Append_ordonneTriees` follows
`append_frag_to_ordered_list` through its search, the range that grows or is inserted, the
merge with the next one and the choice of the head, on a list that is an ordered one
turned about its ring (`Rond`) until the last of these turns it back. And in `OubliInv` a fragment that is due has a
thread that has taken one up and not yet found nothing (`Suivi`): `Apres`, which
reads the list without the lock, gives up only if it is empty, `Verifie` only if
nothing is due (`DuTete`). `add_comm` has no such thread behind it and must empty the
list of what is due itself: its loop goes on until it finds nothing, that of the model for at most as many
turns as there are messages kept, which `ViderSansDu` shows to be enough
(each turn that finds one takes it from a list that holds no more than those, `AttendusFinis`). With messages that overtake the numbers
are all zero, and nothing out of turn is ever due.

`AppariementTheorem` is the refinement: every step of `Ob1Match` is one of `Appariement` or
does not show. The abstract matching sees the messages of a source that have not been taken
up as a set (`Restent`), the unexpected ones as they are, the receives and matched probes that
are posted (`Attendent`) and those that have their message (`Servies`), all by the number of
the request, and whether a receive was cancelled with its message (`Rompu`, after which nothing
is promised). `Match_oneVu` is one step of it, whether the message comes from the network or out of
`frags_cant_match`: that it is the oldest of its source that has not been taken up comes from
`RangeeInv`. `Trouve` and `Poste` are `Poster`, a cancellation without a message is `Annuler`, and
`AjouteComm` is `PrendreEnBloc`, with the lists of `RangeeInv` as they are after it (nothing was
unexpected before, `AvantInv`, and the first step of a request waits for the communicator). Probes,
`Apres`, `Finir` and what arrives out of turn or early do not show: `Finir` leaves the message
of a receive alone because no other has consumed it (`DemandesInv`). The hypotheses are those of
`EndroitsTheorem`, and that the number of requests is bounded (`DemandesBornees`: the names of
the abstract requests run up to the largest `demandes`).

**`CommCidProofs`** (assumptions: the shape of a mode; the two marks of the
table are no creations; `MaxCid` positive and below `Infini`). Two invariants.

- `AccordTheorem` and `AttributionTheorem` (refinement of `Attribution`) are for
  instances with one creation under each communicator (`UneParComm`; three of the
  fourteen modes of `MCCommCid`, those of `ModesFils` and `ModesCroises`, and any
  like them): the creations go on together and hold each other back, but the calls made
  on a communicator are those of one creation. `EtapeInv` and `AppelsInv` count
  them: odd calls give the ids reserved and even ones the flags, nobody is more
  than one call ahead, who goes on after a round has seen that somebody failed,
  who gave up makes no other call. From this, all those that finish have seen
  the same flags, of the same round. When several creations follow each other
  under one communicator, a call number belongs to one or the other depending on
  how many rounds the first took; that stays with TLC.
- `PasDeFuiteTheorem` has no such hypothesis: for any creations, in any order. Its
  invariant, `FuiteInv`, does not speak of what others do, except that the
  minimum of the flags is not above one's own (`DonneInv`). It is under
  `IdsSuffisent`: a process that is not to be in the new communicator takes any
  free id, and if it has none writes at `pml_max_contextid`, which is no id, where
  the next such creation overwrites the entry (`comm_cid.c:420-435` does not test
  whether the loop has found one). `TenusInv` leaves that one place out,
  so that what it says of all others holds even then.

**Only model-checked**:

- all liveness properties (fairness and `ENABLED` are beyond the prover);
- `Ob1Match`: `AucunOubli` for numbers that wrap (with three messages over the
  wrap it holds, with more it is false, section 6);
- `VaderFbox`: `Integrite`, `DesordreAuMontage`, `CanalSpec` and `LeurreDansLaFenetre` for as many messages as
  half the numbers or more (the modes of four and five messages);
- `CommCid`: `Accord` and `AttributionSpec` where several creations follow each
  other under one communicator;
- `OpalLifo`'s counter beyond the naturals, and `SyncVivant` and `AttenteFinie`,
  which are false (section 6).

## 6. Where code and comments disagree

The first three are runs that TLC must find violated, and "findings" of
`PROJECT.json`.

1. `SyncVivant` for wait_any: the flag that protects the sync is cleared by the
   completion that brings the count to 0, while a second completion, which has
   already taken the sync's address, has still to decrement the count
   (`wait_sync.h:72`, `req_wait.c:192`). wait_all without errors is not
   concerned (`SyncVivantAll`): its count is the number of requests.
2. `AttenteFinie`: the lost wake-up of `opal_free_list_wait_mt`.
3. `AucunOubli` over the wrap of the numbers: `append_frag_to_ordered_list` picks
   the head of the list by plain comparison (`pml_ob1_recvfrag.c:171`), although
   its comment says that the overflow is taken care of. With 65535 expected, the
   arrivals 2, 0, 65535 leave 2 at the head when 0 is due: 0 is not found, and
   the source is stuck. `MCOb1Match` has three messages over the wrap, for which
   the list is right.

The modules also have steps that comments exclude, on which no run is spent:

- `opal_free_list_grow_st` brings a growth down to what the maximum leaves
  (`opal_free_list.c:172-175`) and then, for a list with payload buffers, computes it anew from
  their size rounded up to whole pages (`:202`, under a flag that `opal_free_list_construct`
  sets and nothing clears): the list passes `fl_max_to_alloc`, the "Maximum number of elements
  to allocate" of `opal_free_list.h:120`. A maximum of 5, grown by 2, with payloads of 3 bytes
  in pages of 8, comes to 6 items. `BorneAllocation` says by how much it is passed at most.
- `mca_btl_vader_fbox_sendi` publishes a header (`btl_vader_fbox.h:142`) before it clears the
  place of the next (`:152`). A reader that is quick finds data of the lap before there. If
  they show a tag and the number it expects they pass what `:179` calls the "check for a valid
  tag a sequence number": the callback of that tag gets them, and the numbers of the two sides
  differ from then on. `ModesLeurres` has such data and reaches `egare`;
  `LeurreDansLaFenetre` says that this interval is the only one.
- `mca_pml_ob1_recv_request_cancel` tests `req_match_received` under the lock
  (`pml_ob1_recvreq.c:104`, "way to late to cancel this one"), but the thread that has matched
  the receive sets it after it has let go of the lock (`pml_ob1_recvreq.h:247`): in between a
  second thread cancels a receive that has its message, and takes it out of its list again.
  `AnnulationFenetre` says that there is no other interval.
- A thread that finds no communicator for its message appends it to
  `non_existing_communicator_pending` (`pml_ob1_recvfrag.c:346` and `:354`) under no lock. If
  another creates the communicator and searches the queue in between (`pml_ob1.c:216`), the
  message comes after the search and no later step takes it out, although `:349-351` says that
  "this pending queue will be searched and all matching fragments moved to the right
  communicator". `UnSeulEndroit` holds: the message is not lost, it stays.
- The father serves the ranks 0..3, not "each of his children" (`jalon1.c:44-58`):
  with four prg1 all five children stay, one in its receive and four in the fence
  (`SortieGroupee`), and the father ends (second part of
  `Terminaison`).
- The receive of an `MPI_INT` into a `char` (`jalon1.c:59`) changes `nombre` in the
  binary in the repository.
- wait_all with a request that fails: the jump of `req_wait.c:228` leaves the flag
  set and nobody to clear it, and the call spins for ever. `RetourSansErreur` is
  what remains true.
- `opal_free_list_get_mt` may return NULL although the maximum is not reached
  (other threads pop what it has just grown, `opal_free_list.h:200`).
- `fl_max_to_alloc` 0 means no limit to `opal_free_list_grow_st`
  (`opal_free_list.c:172`) and "exhausted" to `opal_free_list_wait_mt`
  (`opal_free_list.h:255`), which then waits; `MaxToAlloc` is positive in the model.
- `MPI_Comm_spawn_multiple` writes an error code per child; with five prg1 that is
  one more than `jalon1.c:25` has room for (`comm_spawn_multiple.c:207`). The
  codes are never read, and `Jalon` leaves them out.
- A process whose ids are used up gives up after the first reduction: the comment
  says that the "others" are "already aware" (`comm_cid.c:348`), but those that
  have a free id, or are not to be in the new communicator, start a second
  reduction which it does not join. `Accord` says that nobody gets the id then;
  `Terminaison` is limited to processes that run out together.
- Creations held back in different processes by different ones
  (`comm_cid.c:313`) wait for each other when a thread waits for the one that is
  held back elsewhere: `Terminaison` is limited to threads that ask in the order
  of the ids (`Croissants`; `ModesCroises` is a case outside it).
- A rendezvous message on a communicator that lets messages overtake has no
  number and is compared all the same (`pml_ob1_recvfrag.c:918`): it never has its
  turn.

## 7. What is not modelled, and the plan

Partly modelled: the builds of the lifo without a 128-bit compare-and-swap and
the single-threaded variants (a sequential stack);
`opal_free_list_resize_mt` (used by the `smcuda` transport only); `ob1` after the
match (rendezvous, RDMA pipeline, retries of pending packets: the fragments of
one request counted in bytes); the reductions inside the agreement on ids, the
barrier that activates a communicator and the freeing of ids; `dpm`,
`MPI_Finalize`, `MPI_Abort` and ORTE beyond what the program sees of them.

Left out of what is modelled: what a callback does with data taken for a header, and a size
read from such data that points out of the box; what the second removal of a receive cancelled
with its message does to the lists; what two threads inside the links of
`non_existing_communicator_pending` do to each other.

Not modelled: collectives (sequential per process and not called by the program),
`opal_fifo`, the progress engine (its effects are in the modules), the datatype
engine (sequential data), one-sided communication, OpenSHMEM, MPI-IO, PMIx,
bindings, the build system (unused here, vendored, or generated).

The tree holds a complete copy of Open MPI with its vendored parts (hwloc,
libevent, PMIx, ROMIO, treematch) and transports for networks this program does
not use; the modules are about the path of this program's messages.

Order of the work:

1. done: `Jalon` with its proofs, `RequestSync`, `WaitSync`, `Pile`, `OpalLifo`
   with its proofs, `Boites`, `VaderFifo`, `FreeList`; `Canal`, `VaderFbox`,
   `FragsOrdonnes`, `Appariement`, `Ob1Match`, `Attribution`, `CommCid`.
2. to model next: the rendezvous of `ob1` (send request state, acknowledgement,
   fragments by several paths, completion exactly once) on top of `Ob1Match`;
   `OpalFifo` (the queue of counted pointers, against an abstract queue);
   `opal_free_list_resize_mt`; the activation of a communicator on top of
   `CommCid`.
3. done: the theorems of section 5. To prove next: `Accord` of `CommCid` for creations that
   follow each other under one communicator (the calls of each are an interval,
   the same in all processes as long as none gives up); `Integrite` of `VaderFbox` for any
   number of messages and a box whose ends are skipped in less than `Modulo` headers.
