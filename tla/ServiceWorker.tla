--------------------------- MODULE ServiceWorker ---------------------------
(* The offline copy of the page (sw.js): what an installing worker stores,    *)
(* what activation deletes, and what the active worker puts beside it from    *)
(* the page's requests, across deploys that may or may not change sw.js or    *)
(* the name of its cache.  The browser runs one worker of each kind.          *)
EXTENDS Naturals

CONSTANTS
  Shell,      \* PRECACHE_URLS but config.js
  Deploys     \* bound: deploys of the site

ASSUME ServiceWorkerAssumption == "config.js" \notin Shell /\ Deploys \in Nat \ {0}

VARIABLES
  deployed,   \* the deploy that is on the server
  script,     \* its sw.js: which deploy changed it last, and which changed CACHE_NAME last
  active, installing,   \* the scripts of the active and of the installing worker, if any
  adding, addFailed,    \* what the install has yet to store; whether it has failed
  caches,     \* each cache there is, by name: the deploy each stored file is of
  puts        \* copies the active worker has yet to put

serviceWorkerVars == <<deployed, script, active, installing, adding, addFailed, caches, puts>>

ShellFiles == Shell \cup {"config.js"}
\* No worker; a file that is not in the cache; an answer that is not ok.
None == [id |-> 0, name |-> 0]
Absent == 0
NotOk == Deploys + 1
Empty == [f \in ShellFiles |-> Absent]

ServiceWorkerInit ==
  /\ deployed = 1 /\ script = [id |-> 1, name |-> 1] /\ active = None /\ installing = None
  /\ adding = {} /\ addFailed = FALSE /\ caches = [n \in {} |-> Empty] /\ puts = {}

Deploy ==
  /\ deployed < Deploys /\ deployed' = deployed + 1
  /\ \E id \in {script.id, deployed'}, name \in {script.name, deployed'} :
       /\ name # script.name => id # script.id
       /\ script' = [id |-> id, name |-> name]
  /\ UNCHANGED <<active, installing, adding, addFailed, caches, puts>>

Opened(name) ==
  IF name \in DOMAIN caches THEN caches
  ELSE [n \in DOMAIN caches \cup {name} |-> IF n = name THEN Empty ELSE caches[n]]
Put(name, f, answer) == [caches EXCEPT ![name][f] = answer]

(* registerServiceWorker: the browser finds that sw.js has changed.          *)
Install ==
  /\ installing = None /\ script # active
  /\ installing' = script /\ adding' = ShellFiles /\ addFailed' = FALSE
  /\ caches' = Opened(script.name)
  /\ UNCHANGED <<deployed, script, active, puts>>

(* cache.add, past the HTTP cache: only an ok answer is stored.              *)
AddFile(f) ==
  /\ f \in adding /\ adding' = adding \ {f}
  /\ caches' = Put(installing.name, f, deployed)
  /\ UNCHANGED <<deployed, script, active, installing, addFailed, puts>>

\* Mutant: whatever is missing is done without, like config.js.
DoneWithoutAny(f) == TRUE
DoneWithout(f) == f = "config.js"

AddFails(f) ==
  /\ f \in adding /\ adding' = adding \ {f}
  /\ addFailed' = (addFailed \/ ~DoneWithout(f))
  /\ UNCHANGED <<deployed, script, active, installing, caches, puts>>

AddingNothing == {}

(* A failed install is discarded, what it stored stays; some of its requests *)
(* may still end before.                                                     *)
DiscardInstall ==
  /\ addFailed /\ installing' = None /\ adding' = AddingNothing /\ addFailed' = FALSE
  /\ UNCHANGED <<deployed, script, active, caches, puts>>

KeptCaches(name) == {name} \cap DOMAIN caches

(* skipWaiting, then activate and claim: the old worker's events are over.   *)
Activate ==
  /\ installing # None /\ adding = {} /\ ~addFailed /\ puts = {}
  /\ active' = installing /\ installing' = None
  /\ caches' = [n \in KeptCaches(installing.name) |-> caches[n]]
  /\ UNCHANGED <<deployed, script, adding, addFailed, puts>>

-----------------------------------------------------------------------------
Copies(answer) == answer # NotOk

(* fetch: network first, and a copy of a good answer; a navigation is not    *)
(* copied, and nothing is while the network is down.                         *)
FetchFile(f) ==
  /\ active # None
  /\ \E answer \in {deployed, NotOk} :
       Copies(answer) /\ puts' = puts \cup {[file |-> f, answer |-> answer]}
  /\ UNCHANGED <<deployed, script, active, installing, adding, addFailed, caches>>

PutCopy(p) ==
  /\ p \in puts /\ puts' = puts \ {p}
  /\ caches' = [Opened(active.name) EXCEPT ![active.name][p.file] = p.answer]
  /\ UNCHANGED <<deployed, script, active, installing, adding, addFailed>>

ServiceWorkerNext ==
  \/ Deploy \/ Install \/ DiscardInstall \/ Activate
  \/ \E f \in ShellFiles : AddFile(f) \/ AddFails(f)
  \/ \E f \in Shell \ {"index.html"} : FetchFile(f)
  \/ \E p \in puts : PutCopy(p)

-----------------------------------------------------------------------------
(* Properties.                                                               *)

(* The workers and the caches are of their types, and files are added for an *)
(* install only: the type invariant of this module.                          *)
ServiceWorkerTypeOK ==
  LET scripts == [id : 1..Deploys, name : 1..Deploys] IN
  /\ deployed \in 1..Deploys /\ script \in scripts
  /\ {active, installing} \subseteq scripts \cup {None}
  /\ adding \subseteq ShellFiles /\ addFailed \in BOOLEAN /\ (installing = None => adding = {})
  /\ DOMAIN caches \subseteq 1..Deploys
  /\ \A n \in DOMAIN caches : caches[n] \in [ShellFiles -> 0..NotOk]
  /\ puts \subseteq [file : Shell, answer : 1..NotOk]

(* Once a worker is active the page starts without a network, through failed *)
(* installs and changes of the cache's name: each file is in the cache.      *)
OfflineStarts ==
  active # None => \A f \in Shell : \E n \in DOMAIN caches : caches[n][f] # Absent

(* What a rider is given offline was a good answer once (sw.js:154).         *)
GoodCopies == \A n \in DOMAIN caches : \A f \in ShellFiles : caches[n][f] # NotOk

(* No older cache is in front of the active worker's, where caches.match     *)
(* looks first and would find the files of an older page (sw.js:121).        *)
FreshestFirst ==
  active # None /\ installing = None => \A n \in DOMAIN caches : n >= active.name

(* Offline the page starts, with good and its own files, through every       *)
(* deploy and failed install (sw.js).                                        *)
OfflineSound == ServiceWorkerTypeOK /\ OfflineStarts /\ GoodCopies /\ FreshestFirst

=============================================================================
