----------------------------- MODULE ServiceKey -----------------------------
(***************************************************************************)
(* The keys of the directory: how a process makes its own from its         *)
(* configuration, and the two ways others take name and address out of     *)
(* it. A text is a sequence of atoms, "_" and others; only "_" and where   *)
(* the etcdKey occurs matter.                                              *)
(***************************************************************************)
EXTENDS Naturals, Sequences

CONSTANT Atoms  \* what texts are made of

Bar == "_"

ASSUME ServiceKeyAssumption == Bar \in Atoms

(* strings.Split takes text apart at each occurrence of sep, from the      *)
(* left: the first part is Before, the others are those of After.          *)
Occurs(sep, s, p) ==
  p + Len(sep) <= Len(s) + 1 /\ SubSeq(s, p, p + Len(sep) - 1) = sep
Has(s, sep) == \E p \in DOMAIN s : Occurs(sep, s, p)
First(s, sep) == CHOOSE p \in DOMAIN s :
                   Occurs(sep, s, p) /\ \A q \in 1 .. p - 1 : ~Occurs(sep, s, q)
Before(s, sep) == IF Has(s, sep) THEN SubSeq(s, 1, First(s, sep) - 1) ELSE s
After(s, sep) == SubSeq(s, First(s, sep) + Len(sep), Len(s))

Text == Seq(Atoms)
Underscore == <<Bar>>

Server == [name : Text, addr : Text]

(* GetServiceId. A key some other program put may have no address.         *)
Service(s) == IF s.addr = <<>> THEN s.name ELSE s.name \o Underscore \o s.addr
Key(etcdKey, s) == etcdKey \o Underscore \o Service(s)

(* getAllServices keeps what is between the first etcdKey_ and the next,   *)
(* serviceRegister takes that apart at "_". An entry without a second part *)
(* is an index out of range.                                               *)
(* Slip: the separator is the etcdKey alone.                               *)
ListedNoSeparator(etcdKey, k) == Before(After(k, etcdKey), etcdKey)

Listed(etcdKey, k) ==
  LET sep == etcdKey \o Underscore IN Before(After(k, sep), sep)

(* Slip: it wants a third part.                                            *)
ListPanicsThird(etcdKey, k) ==
  LET service == Listed(etcdKey, k) IN
  Has(service, Underscore) => ~Has(After(service, Underscore), Underscore)

ListPanics(etcdKey, k) == ~Has(Listed(etcdKey, k), Underscore)

ListEntry(etcdKey, k) ==
  LET service == Listed(etcdKey, k) IN
  [name |-> Before(service, Underscore),
   addr |-> Before(After(service, Underscore), Underscore)]

(* serviceWatcher takes the whole key apart at "_".                        *)
WatchEntry(k) ==
  LET rest == After(k, Underscore) IN
  [name |-> Before(rest, Underscore),
   addr |-> Before(After(rest, Underscore), Underscore)]
=============================================================================
