----------------------------- MODULE Directory -----------------------------
(***************************************************************************)
(* How one process (the viewer) keeps its node lists in step with etcd.    *)
(* At boot it lists the keys under the common prefix and hands each to the *)
(* manager; then it opens a watch and applies the events, in order. Every  *)
(* server keeps its own key there under a lease of two seconds.            *)
(*                                                                         *)
(* etcd is external: a watch opened without a revision delivers what       *)
(* changes after it is open, in order. The hand-over to the manager is one *)
(* step with what the manager does (Dispatch has that in detail); the      *)
(* viewer's node lists are a count of entries per server.                  *)
(***************************************************************************)
EXTENDS Integers, Sequences, FiniteSets

CONSTANTS
  Servers,      \* the servers, one key each
  Strangers,    \* other keys under the prefix, with no address in them
  MaxChanges    \* bound on the changes of the directory

Keys == Servers \cup Strangers

ASSUME DirectoryAssumption ==
  /\ Servers \cap Strangers = {}
  /\ MaxChanges \in Nat

VARIABLES
  keys,      \* the keys in etcd
  server,    \* "down", "up", or "lost": running, but its lease ran out
  changes,   \* changes of the directory so far
  attached,  \* the viewer's watch is open
  queue,     \* its events not yet handled
  missed,    \* history: the keys whose last change the viewer did not get
  vpc,       \* where the viewer is
  listed,    \* keys of the boot list not yet added
  view,      \* entries in the viewer's node lists, per server
  reboots    \* times RebootFunc has restarted serviceWatcher

etcdVars == <<keys, server, changes>>
viewerVars == <<vpc, listed, view, reboots>>
watchVars == <<attached, queue, missed>>
vars == <<etcdVars, watchVars, viewerVars>>

Events == [type : {"put", "delete"}, key : Keys]

-----------------------------------------------------------------------------
(* The directory.                                                          *)

CanChange == changes < MaxChanges

(* A change is missed when it comes after the list and no watch is open.   *)
Announce(t, k) ==
  /\ changes' = changes + 1
  /\ queue' = IF attached THEN Append(queue, [type |-> t, key |-> k]) ELSE queue
  /\ missed' = CASE attached -> missed \ {k}
                 [] ~attached /\ vpc = "list" -> missed
                 [] ~attached /\ vpc # "list" -> missed \cup {k}
  /\ UNCHANGED <<attached, viewerVars>>

(* serviceRegister of a server: Grant, Put, KeepAlive. A server may be back *)
(* before its old lease ran out: the Put takes the key over from it.       *)
Register(s) ==
  /\ CanChange
  /\ server[s] = "down"
  /\ server' = [server EXCEPT ![s] = "up"]
  /\ keys' = keys \cup {s}
  /\ Announce("put", s)

(* A server stops; its key stays until the lease runs out.                 *)
Stop(s) ==
  /\ server[s] # "down"
  /\ server' = [server EXCEPT ![s] = "down"]
  /\ UNCHANGED <<keys, changes, watchVars, viewerVars>>

(* The lease of a stopped server, or of one that was cut off for longer,   *)
(* runs out. The latter drains a closed channel from then on and never     *)
(* registers again.                                                        *)
Expire(s) ==
  /\ CanChange
  /\ s \in keys
  /\ server' = IF server[s] = "up" THEN [server EXCEPT ![s] = "lost"] ELSE server
  /\ keys' = keys \ {s}
  /\ Announce("delete", s)

(* Somebody else writes a key under the prefix.                            *)
PutStranger(k) ==
  /\ CanChange
  /\ keys' = keys \cup {k}
  /\ Announce("put", k)
  /\ UNCHANGED server

-----------------------------------------------------------------------------
(* The viewer.                                                             *)

(* getAllServices: a failed Get is logged and answers an empty list.       *)
List ==
  /\ vpc = "list"
  /\ \/ listed' = keys /\ UNCHANGED missed
     \/ listed' = {} /\ missed' = missed \cup keys
  /\ vpc' = "load"
  /\ UNCHANGED <<etcdVars, attached, queue, view, reboots>>

(* The boot loop: arr[1] of a key with no address panics in main.          *)
Load(k) ==
  /\ vpc = "load" /\ k \in listed
  /\ IF k \in Servers
     THEN /\ view' = [view EXCEPT ![k] = @ + 1]
          /\ listed' = listed \ {k}
          /\ UNCHANGED vpc
     ELSE /\ vpc' = "dead"
          /\ UNCHANGED <<view, listed>>
  /\ UNCHANGED <<etcdVars, watchVars, reboots>>

Attach ==
  /\ vpc = "attach" \/ (vpc = "load" /\ listed = {})
  /\ vpc' = "watch"
  /\ attached' = TRUE /\ queue' = <<>>
  /\ UNCHANGED <<etcdVars, missed, listed, view, reboots>>

(* serviceWatcher on one event. delNode drops every entry of the address.  *)
(* Slips: only one entry is dropped; a delete stays in the channel.        *)
AppliedDropOne(e) ==
  IF e.type = "put" THEN view[e.key] + 1
  ELSE IF view[e.key] > 0 THEN view[e.key] - 1 ELSE 0

Applied(e) == IF e.type = "put" THEN view[e.key] + 1 ELSE 0

HandleSticks ==
  /\ vpc = "watch" /\ queue # <<>> /\ Head(queue).key \in Servers
  /\ view' = [view EXCEPT ![Head(queue).key] = Applied(Head(queue))]
  /\ queue' = IF Head(queue).type = "put" THEN Tail(queue) ELSE queue
  /\ UNCHANGED <<etcdVars, attached, missed, vpc, listed, reboots>>

Handle ==
  /\ vpc = "watch" /\ queue # <<>> /\ Head(queue).key \in Servers
  /\ view' = [view EXCEPT ![Head(queue).key] = Applied(Head(queue))]
  /\ queue' = Tail(queue)
  /\ UNCHANGED <<etcdVars, attached, missed, vpc, listed, reboots>>

(* arr[2] of a key with no address panics. RebootFunc recovers and calls   *)
(* serviceWatcher again, on a new watch, with nothing to recover that      *)
(* call: the second panic ends the process. The events left in the old     *)
(* channel are lost. Slip: every panic restarts it.                        *)
PanicAlways ==
  /\ vpc = "watch" /\ queue # <<>> /\ Head(queue).key \notin Servers
  /\ reboots' = reboots + 1 /\ vpc' = "attach"
  /\ attached' = FALSE /\ queue' = <<>>
  /\ missed' = missed \cup {queue[i].key : i \in DOMAIN queue}
  /\ UNCHANGED <<etcdVars, listed, view>>

Panic ==
  /\ vpc = "watch" /\ queue # <<>> /\ Head(queue).key \notin Servers
  /\ IF reboots = 0
     THEN reboots' = 1 /\ vpc' = "attach"
     ELSE vpc' = "dead" /\ UNCHANGED reboots
  /\ attached' = FALSE /\ queue' = <<>>
  /\ missed' = missed \cup {queue[i].key : i \in DOMAIN queue}
  /\ UNCHANGED <<etcdVars, listed, view>>

(* etcd cancels the watch (a compaction): the channel is closed, the loop  *)
(* ends without a panic, and RebootFunc lets it end.                       *)
Cancel ==
  /\ attached
  /\ attached' = FALSE
  /\ UNCHANGED <<etcdVars, queue, missed, viewerVars>>

WatchEnd ==
  /\ vpc = "watch" /\ ~attached /\ queue = <<>>
  /\ vpc' = "stopped"
  /\ UNCHANGED <<etcdVars, watchVars, listed, view, reboots>>

Viewer == List \/ (\E k \in Keys : Load(k)) \/ Attach \/ Handle \/ Panic
            \/ WatchEnd

Etcd == \/ \E s \in Servers : Register(s) \/ Stop(s) \/ Expire(s)
        \/ \E k \in Strangers : PutStranger(k)
        \/ Cancel

(* No change is left and the viewer has handled all: not a deadlock.       *)
Quiet ==
  /\ vpc \in {"stopped", "dead"} \/ (vpc = "watch" /\ attached /\ queue = <<>>)
  /\ UNCHANGED vars

Init ==
  /\ keys = {} /\ server = [s \in Servers |-> "down"] /\ changes = 0
  /\ attached = FALSE /\ queue = <<>> /\ missed = {}
  /\ vpc = "list" /\ listed = {}
  /\ view = [s \in Servers |-> 0] /\ reboots = 0

Next == Viewer \/ Etcd \/ Quiet

Spec == Init /\ [][Next]_vars

(* The viewer's goroutines run; nothing obliges the servers.               *)
FairSpec == Spec /\ WF_vars(Viewer)

-----------------------------------------------------------------------------
(* Properties.                                                             *)

Seen == {s \in Servers : view[s] > 0}

(* The variables have their types; serviceWatcher is restarted at most     *)
(* once, and every event is about a key under the prefix.                  *)
TypeOK ==
  /\ keys \subseteq Keys
  /\ server \in [Servers -> {"down", "up", "lost"}]
  /\ changes \in 0 .. MaxChanges
  /\ attached \in BOOLEAN
  /\ queue \in Seq(Events) /\ missed \subseteq Keys
  /\ vpc \in {"list", "load", "attach", "watch", "stopped", "dead"}
  /\ listed \subseteq Keys
  /\ view \in [Servers -> Nat]
  /\ reboots \in {0, 1}

(* What the node lists will say of s once the queue is handled.            *)
SettlesAs(s) ==
  \/ \E i \in DOMAIN queue :
       /\ queue[i] = [type |-> "put", key |-> s]
       /\ \A j \in DOMAIN queue : j > i => queue[j].key # s
  \/ /\ \A j \in DOMAIN queue : queue[j].key # s
     /\ s \in Seen

(* A watching viewer is only ever behind: what it has not handled yet      *)
(* turns its lists into exactly the registered servers, whatever restarts  *)
(* within the lease, expiries and duplicates came between. What a gap, a   *)
(* failed list or a panic made it miss about a server stays wrong until    *)
(* the key of that server changes again, and no longer.                    *)
OnlyBehind ==
  vpc = "watch" => \A s \in Servers \ missed : SettlesAs(s) <=> s \in keys

(* And it catches up: once changes stop, a viewer that still watches lists *)
(* a server it missed nothing about exactly if it is registered.           *)
ViewConverges ==
  <>[](vpc = "watch" => \A s \in Servers \ missed : s \in Seen <=> s \in keys)
=============================================================================
