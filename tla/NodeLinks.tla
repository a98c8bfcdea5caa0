------------------------------ MODULE NodeLinks ------------------------------
(***************************************************************************)
(* The mailboxes of one node and the links between them                    *)
(* (impl/actual_node.cpp, impl/linker.cpp, impl/link_policies.cpp, and     *)
(* the destructor of impl/actual_mailbox.cpp).                             *)
(*                                                                         *)
(* The node knows its mailboxes by weak pointers in two maps guarded by    *)
(* mailboxes_lock; the clients own them.  Delivering to a mailbox makes a  *)
(* temporary owner inside the lock.  When the last owner goes, the         *)
(* destructor closes the mailbox in whatever thread that is.               *)
(*                                                                         *)
(* Closing is a chain of steps: take the mailbox's links out of the linker *)
(* (links_lock), send an exit to each linked process in turn (mailboxes_-  *)
(* lock for a process of this node, the connection for a remote one), and  *)
(* remove the mailbox from the maps (mailboxes_lock).  A request that      *)
(* throws ends the chain.  Threads interleave between the steps.           *)
(*                                                                         *)
(* Each thread has a stack of frames, one for each close or delivery it is *)
(* in: a destructor run at the end of a delivery is nested in it.          *)
(***************************************************************************)
EXTENDS Naturals, Sequences, SequencesExt, FiniteSets

CONSTANTS
  Threads,      \* the threads of the program
  io,           \* the one that runs the io_service
  Boxes,        \* the node's mailboxes, by pid; each is created once
  Remotes,      \* pids on other nodes
  Names,        \* registered names
  name_of,      \* the name each mailbox is created with, or NoName
  Droppable,    \* the mailboxes whose clients let go of them
  StaleLinks,   \* whether clients link to mailboxes already closed
  Unreachable,  \* whether a request to another node may throw
  MaxLinks,     \* bound on the number of links made
  MaxIncoming   \* bound on the deliveries and exits that come in

Pids == Boxes \cup Remotes

None   == "none"
NoName == "unnamed"
Free   == "free"

ASSUME NodeAssumption ==
  /\ name_of \in [Boxes -> Names \cup {NoName}]
  /\ Droppable \subseteq Boxes
  /\ StaleLinks \in BOOLEAN /\ Unreachable \in BOOLEAN
  /\ MaxLinks \in Nat /\ MaxIncoming \in Nat
  /\ Boxes \cap Remotes = {}
  /\ None \notin Pids /\ NoName \notin Names /\ Free \notin Threads

VARIABLES
  created,             \* the mailboxes created so far
  held,                \* those a client owns
  closed,              \* those a client has called close on
  mailboxes,           \* keys of the map of weak pointers by pid
  registered,          \* the map of weak pointers by name
  mailboxes_lock,      \* the thread that holds it, or Free
  established_links,   \* std::list of pairs of pids
  stack,               \* the frames of each thread, innermost last
  posted,              \* closes posted to the io_service
  reports,             \* the on_link_broken calls made on each mailbox
  made,                \* history: the links stored, as sets of two pids
  joined,              \* history: the links nobody has been told the end of
  cut_short,           \* history: mailboxes a close of which ended by a throw
  overtaken,           \* history: links that the unlink of an older exit took
  unlinking,           \* the exit reported, its link still to be removed
  connecting,          \* the threads that wait in get_connection_to
  incoming             \* deliveries and exits that have come in

maps    == <<mailboxes, registered>>
clients == <<created, held, closed>>
history == <<made, joined, cut_short, overtaken>>
waits   == <<unlinking, connecting>>
vars    == <<clients, maps, mailboxes_lock, established_links, stack, posted,
             reports, history, incoming, waits>>

(***************************************************************************)
(* A frame: what the thread does next, the mailbox being closed (or None), *)
(* the linked processes still to be told, and the temporary owner.         *)
(***************************************************************************)
Steps == {"close_links", "notify", "release", "unlock", "store_link"}

Frame == [step : Steps, box : Boxes \cup {None}, todo : Seq(Pids),
          ref : Boxes \cup {None}]

Closing(b)    == [step |-> "close_links", box |-> b, todo |-> <<>>, ref |-> None]
Delivering(b) == [step |-> "release", box |-> None, todo |-> <<>>, ref |-> b]
Linking(b, p) == [step |-> "store_link", box |-> b, todo |-> <<p>>, ref |-> None]

Idle(t)     == stack[t] = <<>>
Top(t)      == Last(stack[t])
At(t, s)    == ~Idle(t) /\ Top(t).step = s
Return(t)   == [stack EXCEPT ![t] = Front(@)]
Goto(t, f)  == [stack EXCEPT ![t] = Append(Front(@), f)]
Call(t, f)  == [stack EXCEPT ![t] = Append(@, f)]

(***************************************************************************)
(* The owners of a mailbox: clients, and temporaries in the threads.       *)
(***************************************************************************)
RefCount(b, t) ==
  Cardinality({i \in DOMAIN stack[t] : stack[t][i].ref = b})

Owned(b) == b \in held \/ \E t \in Threads : RefCount(b, t) > 0

LastOwner(t, b) ==
  /\ b \notin held
  /\ RefCount(b, t) = 1
  /\ \A u \in Threads \ {t} : RefCount(b, u) = 0

Init ==
  /\ created = {} /\ held = {} /\ closed = {}
  /\ mailboxes = {}
  /\ registered = [n \in Names |-> None]
  /\ mailboxes_lock = Free
  /\ established_links = <<>>
  /\ stack = [t \in Threads |-> <<>>]
  /\ posted = {}
  /\ reports = [b \in Boxes |-> <<>>]
  /\ made = <<>> /\ joined = {} /\ cut_short = {} /\ overtaken = {}
  /\ unlinking = {} /\ connecting = {}
  /\ incoming = 0

-----------------------------------------------------------------------------
(***************************************************************************)
(* The linker's list.                                                      *)
(***************************************************************************)
Joins(l, p, q) == l = <<p, q>> \/ l = <<q, p>>

Links       == Pids \X Pids
Touching(b) == {l \in Links : b \in {l[1], l[2]}}

(***************************************************************************)
(* std::list::remove and remove_if: the list without the links of D.       *)
(***************************************************************************)
Without(links, D) ==
  LET kept[i \in 0..Len(links)] ==
        IF i = 0 THEN <<>> ELSE
        IF links[i] \in D THEN kept[i - 1]
                          ELSE Append(kept[i - 1], links[i])
  IN  kept[Len(links)]

\* Mutant: only the direction given is removed.
remove_link_one_way(links, p, q) == Without(links, {<<p, q>>})

remove_link_between(links, p, q) ==
  Without(links, {l \in Links : Joins(l, p, q)})

establish_link_between(links, p, q) == Append(links, <<p, q>>)

linker_link(p, q) ==
  /\ established_links' =
       establish_link_between(remove_link_between(established_links, p, q), p, q)
  /\ made' = Append(made, {p, q})
  /\ joined' = joined \cup {{p, q}}
  /\ overtaken' = overtaken \ {{p, q}}
  /\ UNCHANGED cut_short

linker_unlink(p, q) ==
  established_links' = remove_link_between(established_links, p, q)

LinksOf(b) == Without(established_links, Links \ Touching(b))

\* Mutant: the links are looked up and left in the list.
remove_links_keeping(b) == UNCHANGED established_links

(***************************************************************************)
(* remove_links_from: the links of b leave the list.                       *)
(***************************************************************************)
remove_links_from(b) ==
  established_links' = Without(established_links, Touching(b))

\* Mutant: only the links that b asked for itself are collected.
LinkedToAsked(b) ==
  LET asked == Without(established_links, {l \in Links : b # l[1]})
  IN  [i \in DOMAIN asked |-> asked[i][2]]

(***************************************************************************)
(* remove_links_from: the processes at the other end of those links, in    *)
(* list order.                                                             *)
(***************************************************************************)
LinkedTo(b) ==
  [i \in DOMAIN LinksOf(b) |->
     IF LinksOf(b)[i][1] = b THEN LinksOf(b)[i][2] ELSE LinksOf(b)[i][1]]

StoredLink(e) ==
  \E i \in DOMAIN established_links :
    e = {established_links[i][1], established_links[i][2]}

-----------------------------------------------------------------------------
\* Mutant: the mailbox is not registered under its name.
create_mailbox_unregistered(t, b) ==
  /\ Idle(t) /\ t # io
  /\ b \notin created
  /\ mailboxes_lock = Free
  /\ created' = created \cup {b} /\ held' = held \cup {b}
  /\ mailboxes' = mailboxes \cup {b}
  /\ UNCHANGED <<closed, registered, mailboxes_lock, established_links, stack,
                 posted, reports, history, incoming, waits>>

(***************************************************************************)
(* create_mailbox, with or without a name.  An insert does not replace: a  *)
(* name already in the map stays with the mailbox that has it.             *)
(***************************************************************************)
create_mailbox(t, b) ==
  /\ Idle(t) /\ t # io
  /\ b \notin created
  /\ mailboxes_lock = Free
  /\ created' = created \cup {b} /\ held' = held \cup {b}
  /\ mailboxes' = mailboxes \cup {b}
  /\ registered' = [n \in Names |->
       IF n = name_of[b] /\ registered[n] = None THEN b ELSE registered[n]]
  /\ UNCHANGED <<closed, mailboxes_lock, established_links, stack, posted,
                 reports, history, incoming, waits>>

(***************************************************************************)
(* mailbox::link to a process of this node goes straight to the linker.    *)
(***************************************************************************)
link_local(t, a, b) ==
  /\ Idle(t) /\ t # io
  /\ a \in held /\ b \in created /\ a # b
  /\ StaleLinks \/ (b \in held /\ {a, b} \cap closed = {})
  /\ Len(made) < MaxLinks
  /\ linker_link(a, b)
  /\ UNCHANGED <<clients, maps, mailboxes_lock, stack, posted, reports,
                 incoming, waits>>

(***************************************************************************)
(* mailbox::link to a remote process sends the request first (a request    *)
(* that throws changes nothing) and stores the link afterwards.            *)
(***************************************************************************)
link_remote(t, a, r) ==
  /\ Idle(t) /\ t # io
  /\ a \in held /\ (StaleLinks \/ a \notin closed)
  /\ Len(made) < MaxLinks
  /\ stack' = Call(t, Linking(a, r))
  /\ UNCHANGED <<clients, maps, mailboxes_lock, established_links, posted,
                 reports, history, incoming, waits>>

store_link(t) ==
  /\ At(t, "store_link")
  /\ linker_link(Top(t).box, Head(Top(t).todo))
  /\ stack' = Return(t)
  /\ UNCHANGED <<clients, maps, mailboxes_lock, posted, reports, incoming,
                 waits>>

(***************************************************************************)
(* mailbox::unlink; the message to a remote process changes nothing here.  *)
(***************************************************************************)
unlink(t, a, p) ==
  /\ Idle(t) /\ t # io
  /\ a \in held /\ a # p
  /\ linker_unlink(a, p)
  /\ joined' = joined \ {{a, p}}
  /\ UNCHANGED <<clients, maps, mailboxes_lock, stack, posted, reports, made,
                 cut_short, overtaken, incoming, waits>>

(***************************************************************************)
(* A remote process links to a mailbox or unlinks from it.                 *)
(***************************************************************************)
incoming_link(r, b) ==
  /\ io \in Threads /\ Idle(io)
  /\ b \in created /\ (StaleLinks \/ b \in held \ closed)
  /\ Len(made) < MaxLinks
  /\ linker_link(r, b)
  /\ UNCHANGED <<clients, maps, mailboxes_lock, stack, posted, reports,
                 incoming, waits>>

incoming_unlink(r, b) ==
  /\ io \in Threads /\ Idle(io)
  /\ b \in created
  /\ linker_unlink(r, b)
  /\ joined' = joined \ {{r, b}}
  /\ UNCHANGED <<clients, maps, mailboxes_lock, stack, posted, reports, made,
                 cut_short, overtaken, incoming, waits>>

-----------------------------------------------------------------------------
(***************************************************************************)
(* Who starts a close: the client, the destructor in the thread of the     *)
(* last owner, or the io_service on behalf of a destructor run while an    *)
(* exception unwinds the stack.                                            *)
(***************************************************************************)
close(t, b) ==
  /\ Idle(t) /\ t # io
  /\ b \in held
  /\ closed' = closed \cup {b}
  /\ stack' = Call(t, Closing(b))
  /\ UNCHANGED <<created, held, maps, mailboxes_lock, established_links,
                 posted, reports, history, incoming, waits>>

OwnedElsewhere(b) == \E u \in Threads : RefCount(b, u) > 0

drop(t, b) ==
  /\ Idle(t) /\ t # io
  /\ b \in held \cap Droppable
  /\ held' = held \ {b}
  /\ stack' = IF OwnedElsewhere(b) THEN stack ELSE Call(t, Closing(b))
  /\ UNCHANGED <<created, closed, maps, mailboxes_lock, established_links,
                 posted, reports, history, incoming, waits>>

drop_unwinding(t, b) ==
  /\ Idle(t) /\ t # io
  /\ b \in held \cap Droppable
  /\ held' = held \ {b}
  /\ posted' = IF OwnedElsewhere(b) THEN posted ELSE posted \cup {b}
  /\ UNCHANGED <<created, closed, maps, mailboxes_lock, established_links,
                 stack, reports, history, incoming, waits>>

close_mailbox_async(b) ==
  /\ io \in Threads /\ Idle(io)
  /\ b \in posted
  /\ posted' = posted \ {b}
  /\ stack' = Call(io, Closing(b))
  /\ UNCHANGED <<clients, maps, mailboxes_lock, established_links, reports,
                 history, incoming, waits>>

-----------------------------------------------------------------------------
(***************************************************************************)
(* close_mailbox, step by step.                                            *)
(***************************************************************************)
close_links_for_local(t) ==
  /\ At(t, "close_links")
  /\ remove_links_from(Top(t).box)
  /\ stack' = Goto(t, [Top(t) EXCEPT !.step = "notify",
                                     !.todo = LinkedTo(Top(t).box)])
  /\ UNCHANGED <<clients, maps, mailboxes_lock, posted, reports, history,
                 incoming, waits>>

(***************************************************************************)
(* A request that throws ends the close, wherever it was called from.      *)
(***************************************************************************)
ends_by_throw(t) ==
  /\ stack' = Return(t)
  /\ cut_short' = cut_short \cup {Top(t).box}

(***************************************************************************)
(* A request to a process of another node first gets a connection.  If     *)
(* there is none the thread waits for the outcome of a handshake, without  *)
(* a time-out, and with whatever it has locked.                            *)
(***************************************************************************)
NotifiesRemote(t) ==
  /\ At(t, "notify") /\ Top(t).todo # <<>>
  /\ Head(Top(t).todo) \in Remotes

get_connection_to(t) ==
  /\ NotifiesRemote(t) /\ t \notin connecting
  /\ connecting' = connecting \cup {t}
  /\ UNCHANGED <<clients, maps, mailboxes_lock, established_links, stack,
                 posted, reports, history, incoming, unlinking>>

(***************************************************************************)
(* The handshakes are run by the io_service: no wait ends while its thread *)
(* is itself one that waits.                                               *)
(***************************************************************************)
Connected(t) == t \in connecting => io \notin connecting

(***************************************************************************)
(* request_exit2 to a remote process: sent, or thrown when there is no     *)
(* connection (which the process at the other end learns from its own      *)
(* node).                                                                  *)
(***************************************************************************)
request_exit2_remote(t) ==
  /\ NotifiesRemote(t) /\ Connected(t)
  /\ connecting' = connecting \ {t}
  /\ joined' = joined \ {{Top(t).box, Head(Top(t).todo)}}
  /\ \/ /\ stack' = Goto(t, [Top(t) EXCEPT !.todo = Tail(@)])
        /\ UNCHANGED cut_short
     \/ Unreachable /\ ends_by_throw(t)
  /\ UNCHANGED <<clients, maps, mailboxes_lock, established_links, posted,
                 reports, made, overtaken, incoming, unlinking>>

(***************************************************************************)
(* fetch_mailbox by pid finds a mailbox that still has an owner.           *)
(***************************************************************************)
Fetched(b) == b \in mailboxes /\ Owned(b)

(***************************************************************************)
(* incoming_exit(from, b), inside mailboxes_lock: the mailbox is told.  The *)
(* link is removed afterwards, under the linker's own lock, which is all   *)
(* that making a link takes: one made in between goes with it.             *)
(***************************************************************************)
on_link_broken(from, b) ==
  /\ reports' = [reports EXCEPT ![b] = Append(@, from)]
  /\ unlinking' = {<<from, b>>}
  /\ joined' = joined \ {{from, b}}
  /\ UNCHANGED <<maps, established_links, made, cut_short, overtaken>>

unlink_exited(t) ==
  /\ At(t, "release") /\ mailboxes_lock = t
  /\ \E l \in unlinking :
       /\ linker_unlink(l[1], l[2])
       /\ overtaken' = overtaken \cup
            {e \in joined : e = {l[1], l[2]} /\ StoredLink(e)}
       /\ unlinking' = unlinking \ {l}
  /\ UNCHANGED <<clients, maps, mailboxes_lock, stack, posted, reports, made,
                 joined, cut_short, incoming, connecting>>

(***************************************************************************)
(* request_exit2 to a process of this node comes back as incoming_exit2,   *)
(* which takes mailboxes_lock.  fetch_mailbox throws when the mailbox is   *)
(* unknown, or expired (then its key goes too), and the close ends there.  *)
(***************************************************************************)
incoming_exit2(t) ==
  /\ At(t, "notify") /\ Top(t).todo # <<>>
  /\ LET b == Head(Top(t).todo) IN
       /\ b \in Boxes
       /\ mailboxes_lock = Free
       /\ \/ /\ Fetched(b)
             /\ mailboxes_lock' = t
             /\ on_link_broken(Top(t).box, b)
             /\ stack' = Goto(t, [Top(t) EXCEPT !.step = "release",
                                                !.todo = Tail(@), !.ref = b])
          \/ /\ ~Fetched(b)
             /\ mailboxes' = mailboxes \ {b}
             /\ ends_by_throw(t)
             /\ UNCHANGED <<registered, mailboxes_lock, established_links,
                            reports, made, joined, overtaken, unlinking>>
  /\ UNCHANGED <<clients, posted, incoming, connecting>>

(***************************************************************************)
(* The end of a delivery.  The temporary owner is destroyed before the     *)
(* lock is released: if it is the last one, the destructor of the mailbox  *)
(* runs here, inside the lock.                                             *)
(***************************************************************************)
After(f) == [f EXCEPT !.step = "notify", !.ref = None]

Resume(t) == IF Top(t).box = None THEN Return(t) ELSE Goto(t, After(Top(t)))

\* Mutant: the lock is kept after a delivery.
release_without_unlock(t) ==
  /\ At(t, "release") /\ unlinking = {}
  /\ stack' = Resume(t)
  /\ UNCHANGED <<clients, maps, mailboxes_lock, established_links, posted,
                 reports, history, incoming, waits>>

release_destination(t) ==
  /\ At(t, "release") /\ unlinking = {}
  /\ IF LastOwner(t, Top(t).ref)
       THEN /\ stack' = [stack EXCEPT ![t] =
                 Append(Append(Front(@), [Top(t) EXCEPT !.step = "unlock",
                                                        !.ref = None]),
                        Closing(Top(t).ref))]
            /\ UNCHANGED mailboxes_lock
       ELSE /\ stack' = Resume(t)
            /\ mailboxes_lock' = Free
  /\ UNCHANGED <<clients, maps, established_links, posted, reports, history,
                 incoming, waits>>

unlock(t) ==
  /\ At(t, "unlock")
  /\ stack' = Resume(t)
  /\ mailboxes_lock' = Free
  /\ UNCHANGED <<clients, maps, established_links, posted, reports, history,
                 incoming, waits>>

(***************************************************************************)
(* remove, the last step of a close: the pid is erased, and the name       *)
(* whichever mailbox it stands for.                                        *)
(***************************************************************************)
remove(t) ==
  /\ At(t, "notify") /\ Top(t).todo = <<>>
  /\ mailboxes_lock = Free
  /\ mailboxes' = mailboxes \ {Top(t).box}
  /\ registered' = [n \in Names |->
       IF n = name_of[Top(t).box] THEN None ELSE registered[n]]
  /\ stack' = Return(t)
  /\ UNCHANGED <<clients, mailboxes_lock, established_links, posted, reports,
                 history, incoming, waits>>

-----------------------------------------------------------------------------
(***************************************************************************)
(* receive_incoming: to a pid, from a connection; to a name, from a        *)
(* connection or from a mailbox of this node.  An expired entry is erased  *)
(* and the delivery throws.                                                *)
(***************************************************************************)
receive_incoming_pid(b) ==
  /\ io \in Threads /\ Idle(io)
  /\ incoming < MaxIncoming /\ incoming' = incoming + 1
  /\ b \in created
  /\ mailboxes_lock = Free
  /\ IF Fetched(b)
       THEN /\ mailboxes_lock' = io
            /\ stack' = Call(io, Delivering(b))
            /\ UNCHANGED mailboxes
       ELSE /\ mailboxes' = mailboxes \ {b}
            /\ UNCHANGED <<mailboxes_lock, stack>>
  /\ UNCHANGED <<clients, registered, established_links, posted, reports,
                 history, waits>>

receive_incoming_name(t, n) ==
  /\ Idle(t)
  /\ incoming < MaxIncoming /\ incoming' = incoming + 1
  /\ mailboxes_lock = Free
  /\ IF registered[n] # None /\ Owned(registered[n])
       THEN /\ mailboxes_lock' = t
            /\ stack' = Call(t, Delivering(registered[n]))
            /\ UNCHANGED registered
       ELSE /\ registered' = [registered EXCEPT ![n] = None]
            /\ UNCHANGED <<mailboxes_lock, stack>>
  /\ UNCHANGED <<clients, mailboxes, established_links, posted, reports,
                 history, waits>>

(***************************************************************************)
(* An exit from a remote process.                                          *)
(***************************************************************************)
incoming_exit(r, b) ==
  /\ io \in Threads /\ Idle(io)
  /\ incoming < MaxIncoming /\ incoming' = incoming + 1
  /\ b \in created
  /\ mailboxes_lock = Free
  /\ \/ /\ Fetched(b)
        /\ mailboxes_lock' = io
        /\ on_link_broken(r, b)
        /\ stack' = Call(io, Delivering(b))
     \/ /\ ~Fetched(b)
        /\ mailboxes' = mailboxes \ {b}
        /\ UNCHANGED <<registered, mailboxes_lock, established_links, stack,
                       reports, history, unlinking>>
  /\ UNCHANGED <<clients, posted, connecting>>

-----------------------------------------------------------------------------
Next ==
  \/ \E t \in Threads, b \in Boxes : create_mailbox(t, b)
  \/ \E t \in Threads, a, b \in Boxes : link_local(t, a, b)
  \/ \E t \in Threads, a \in Boxes, r \in Remotes : link_remote(t, a, r)
  \/ \E t \in Threads : store_link(t)
  \/ \E t \in Threads, a \in Boxes, p \in Pids : unlink(t, a, p)
  \/ \E r \in Remotes, b \in Boxes : incoming_link(r, b)
  \/ \E r \in Remotes, b \in Boxes : incoming_unlink(r, b)
  \/ \E t \in Threads, b \in Boxes : close(t, b)
  \/ \E t \in Threads, b \in Boxes : drop(t, b)
  \/ \E t \in Threads, b \in Boxes : drop_unwinding(t, b)
  \/ \E b \in Boxes : close_mailbox_async(b)
  \/ \E t \in Threads : close_links_for_local(t)
  \/ \E t \in Threads : get_connection_to(t)
  \/ \E t \in Threads : request_exit2_remote(t)
  \/ \E t \in Threads : incoming_exit2(t)
  \/ \E t \in Threads : unlink_exited(t)
  \/ \E t \in Threads : release_destination(t)
  \/ \E t \in Threads : unlock(t)
  \/ \E t \in Threads : remove(t)
  \/ \E b \in Boxes : receive_incoming_pid(b)
  \/ \E t \in Threads, n \in Names : receive_incoming_name(t, n)
  \/ \E r \in Remotes, b \in Boxes : incoming_exit(r, b)

Spec == Init /\ [][Next]_vars

(***************************************************************************)
(* A thread inside a close or a delivery goes on, and the io_service runs  *)
(* what is posted to it; nothing says that a wait for a connection ends.   *)
(* Weak fairness is enough for the steps that lock: mailboxes_lock is      *)
(* taken finitely often in a bounded instance.                             *)
(***************************************************************************)
Fairness ==
  /\ \A t \in Threads :
       WF_vars(\/ store_link(t) \/ close_links_for_local(t)
               \/ (t \notin connecting /\ request_exit2_remote(t))
               \/ incoming_exit2(t) \/ unlink_exited(t)
               \/ release_destination(t) \/ unlock(t) \/ remove(t))
  /\ WF_vars(\E b \in Boxes : close_mailbox_async(b))

FairSpec == Spec /\ Fairness

-----------------------------------------------------------------------------
(***************************************************************************)
(* Type correctness of the node's state.                                   *)
(***************************************************************************)
TypeOK ==
  /\ held \subseteq created /\ closed \subseteq created
  /\ created \in SUBSET Boxes /\ mailboxes \in SUBSET created
  /\ registered \in [Names -> Boxes \cup {None}]
  /\ mailboxes_lock \in Threads \cup {Free}
  /\ established_links \in Seq(Pids \X Pids)
  /\ stack \in [Threads -> Seq(Frame)]
  /\ posted \in SUBSET (created \ held)
  /\ reports \in [Boxes -> Seq(Pids)]
  /\ made \in Seq(SUBSET Pids) /\ joined \in SUBSET SUBSET Pids
  /\ cut_short \in SUBSET created /\ overtaken \in SUBSET SUBSET Pids
  /\ unlinking \in SUBSET Links /\ Cardinality(unlinking) <= 1
  /\ connecting \in SUBSET Threads
  /\ incoming \in 0..MaxIncoming

(***************************************************************************)
(* The linker never holds a link twice, in either direction, so that a     *)
(* dying process is reported once to each process it is linked to.         *)
(***************************************************************************)
LinkStoredOnce ==
  \A i, j \in DOMAIN established_links :
    Joins(established_links[i], established_links[j][1],
          established_links[j][2]) => i = j

WantsLock(t) ==
  /\ At(t, "notify")
  /\ Top(t).todo # <<>> => Head(Top(t).todo) \in Boxes

SelfDeadlock(t) == WantsLock(t) /\ mailboxes_lock = t

(***************************************************************************)
(* A thread never waits for mailboxes_lock while it holds it ("ensure the  *)
(* mutex isn't locked", close_mailbox).                                    *)
(***************************************************************************)
NoSelfDeadlock == \A t \in Threads : ~SelfDeadlock(t)

PendingExit(e) ==
  \E t \in Threads : \E i \in DOMAIN stack[t] :
    LET f == stack[t][i] IN
      /\ f.step \in {"notify", "release", "unlock"}
      /\ \E p \in ToSet(f.todo) : e = {f.box, p}

Open(p) == p \in Remotes \/ p \in held \ closed

LinkKept(e) == (\E p \in e : Open(p)) => StoredLink(e) \/ PendingExit(e)

(***************************************************************************)
(* The end of a link is not lost: as long as a link has been neither       *)
(* undone nor reported, the linker holds it, or a thread that closes one   *)
(* of its ends still has the other end to tell (mailbox.h: on close the    *)
(* links "will be broken with exit reason 'normal'").  A link whose        *)
(* surviving end is closed as well has nobody left to tell.                *)
(***************************************************************************)
LinkNotLost == \A e \in joined : LinkKept(e)

(***************************************************************************)
(* The end of a link is lost in two ways only: an exception cuts short the *)
(* close of one of its ends (linker.cpp, on_broken_links: the links are    *)
(* removed first, the exits are sent afterwards), or the link was made     *)
(* again between the report of an older exit and the unlink that follows   *)
(* it (actual_node.cpp, incoming_exit).                                    *)
(***************************************************************************)
LostByThrowOrOvertaken ==
  \A e \in joined :
    LinkKept(e) \/ e \cap cut_short # {} \/ e \in overtaken

Occurrences(s, x) == Cardinality({i \in DOMAIN s : s[i] = x})

(***************************************************************************)
(* A link between two mailboxes is reported at most once, to one of its    *)
(* ends: the reports made, the exits under way and the link itself never   *)
(* outnumber the links made, whatever closes and unlinks cross.            *)
(***************************************************************************)
ReportedOnce ==
  \A a, b \in Boxes :
    a # b =>
      Occurrences(reports[a], b) + Occurrences(reports[b], a)
        + (IF PendingExit({a, b}) THEN 1 ELSE 0)
        + (IF StoredLink({a, b}) THEN 1 ELSE 0)
      <= Occurrences(made, {a, b})

(***************************************************************************)
(* A mailbox that its client holds and has not closed can be reached: by   *)
(* its pid, and by its name if it has one (node.h: "Messages can be sent   *)
(* to this mailbox by using its registered name or its pid").              *)
(***************************************************************************)
OpenMailboxReachable ==
  \A b \in held \ closed :
    /\ b \in mailboxes
    /\ name_of[b] # NoName => registered[name_of[b]] = b

(***************************************************************************)
(* Every close and every delivery comes to an end, with or without an      *)
(* exception, and frees the thread that made it.  A thread is stopped only *)
(* by a wait for a connection, by a destructor that waits for its own      *)
(* thread's lock, or by a lock whose holder is stopped in one of these     *)
(* ways.                                                                   *)
(***************************************************************************)
Stopped(t) == t \in connecting \/ SelfDeadlock(t)

ThreadsReturn ==
  \A t \in Threads :
    ~Idle(t) ~> \/ Idle(t) \/ Stopped(t)
                \/ \E u \in Threads : mailboxes_lock = u /\ Stopped(u)
=============================================================================
