------------------------------- MODULE AptCyg -------------------------------
(***************************************************************************)
(* apt-cyg install and remove: a stack of processes, each going through its*)
(* targets, the package database and the files in /etc/setup they share,   *)
(* downloads that fail and an interrupt at any point.                      *)
(***************************************************************************)
EXTENDS Integers, Sequences, SequencesExt

CONSTANTS
  Packages,
  Requires,   \* of each package, the sequence its description names
  Unknown,    \* packages that setup.ini does not have
  Essential,  \* packages apt-cyg itself needs
  Commands,   \* what the user may ask: [op, targets, nodeps]
  Runs, Interrupts, Outages  \* how many of each

Gone == {"gone"}   \* installed.db, between the two calls of mv

VARIABLES
  installed_db,
  manifests,    \* the packages with a .lst.gz
  unpacked,     \* the packages whose files are in place
  postinstall,  \* the packages with a script still to run
  stack,        \* the processes, the running one last
  runs, interrupts, outages,
  ended,        \* the last command and how it ended
  broken        \* packages whose removal was interrupted or whose tar failed

files == <<installed_db, manifests, unpacked, postinstall>>
history == <<runs, interrupts, outages, ended, broken>>
vars == <<files, stack, history>>

Closed == \A p \in installed_db : ToSet(Requires[p]) \subseteq installed_db
NoCommand == [op |-> "none", targets |-> <<>>, nodeps |-> FALSE]
Process(op, targets, nodeps, noscripts) ==
  [op |-> op, targets |-> targets, nodeps |-> nodeps, noscripts |-> noscripts,
   step |-> "next", todo |-> <<>>, new_db |-> {}, away |-> FALSE]

Init ==
  /\ installed_db = {} /\ manifests = {} /\ unpacked = {} /\ postinstall = {}
  /\ stack = <<>> /\ runs = 0 /\ interrupts = 0 /\ outages = 0 /\ broken = {}
  /\ ended = [command |-> NoCommand, ok |-> TRUE, closed |-> TRUE, news |-> FALSE]

Top == Last(stack)
pkg == Head(Top.targets)
Running(op, step) == stack # <<>> /\ Top.op = op /\ Top.step = step
With(changed) == stack' = Append(Front(stack), changed)
Goes(step) == With([Top EXCEPT !.step = step])
NextTarget(process) == [process EXCEPT !.step = "next", !.targets = Tail(@)]
Fails == ended' = [ended EXCEPT !.ok = FALSE]

(* A process that ends leaves its parent with the rest of what it requires:*)
(* the parent counts failures and goes on.                                 *)
Ends ==
  stack' = IF Len(stack) = 1 THEN <<>>
           ELSE LET parent == stack[Len(stack) - 1] IN
             SubSeq(stack, 1, Len(stack) - 2)
               \o <<[parent EXCEPT !.step = "requires", !.todo = Tail(@)]>>

-----------------------------------------------------------------------------
(* The user runs a command, and may interrupt it.                          *)
RunCommand ==
  /\ stack = <<>> /\ runs < Runs /\ runs' = runs + 1
  /\ \E c \in Commands :
       /\ stack' = <<Process(c.op, c.targets, c.nodeps, FALSE)>>
       /\ ended' = [command |-> c, ok |-> TRUE, news |-> FALSE,
                    closed |-> installed_db # Gone /\ Closed]
  /\ UNCHANGED <<files, interrupts, outages, broken>>

Interrupt ==
  /\ stack # <<>> /\ interrupts < Interrupts
  /\ interrupts' = interrupts + 1 /\ stack' = <<>>
  /\ Fails
  /\ broken' = IF Top.op = "remove" /\ Top.step # "next" THEN broken \cup {pkg} ELSE broken
  /\ UNCHANGED <<files, runs, outages>>

EndOfTargets ==
  /\ stack # <<>> /\ Top.step = "next" /\ Top.targets = <<>>
  /\ Ends
  /\ UNCHANGED <<files, history>>

-----------------------------------------------------------------------------
(* apt-install.  Without the database grep finds no package in it.         *)
InstallNext ==
  /\ Running("install", "next") /\ Top.targets # <<>>
  /\ IF pkg \in installed_db THEN With(NextTarget(Top)) ELSE Goes("download")
  /\ UNCHANGED <<files, history>>

(* download looks the package up in the setup.ini of the current directory *)
(* and writes the manifest; a failure ends the process.                    *)
DatabaseFirst == "save"           \* mutant: the files are unpacked last
AfterDownload == "unpack"
Download ==
  /\ Running("install", "download") /\ ~Top.away /\ pkg \notin Unknown
  /\ manifests' = manifests \cup {pkg}
  /\ Goes(AfterDownload)
  /\ UNCHANGED <<installed_db, unpacked, postinstall, history>>

DownloadFails ==
  /\ Running("install", "download")
  /\ \/ (Top.away \/ pkg \in Unknown) /\ UNCHANGED outages
     \/ outages < Outages /\ outages' = outages + 1
  /\ Ends /\ Fails
  /\ UNCHANGED <<files, runs, interrupts, broken>>

Unpack ==
  /\ Running("install", "unpack")
  /\ unpacked' = unpacked \cup {pkg} /\ postinstall' = postinstall \cup {pkg}
  /\ Goes("save")
  /\ UNCHANGED <<installed_db, manifests, history>>

(* Nobody looks whether tar has failed.                                    *)
UnpackFails ==
  /\ Running("install", "unpack") /\ outages < Outages
  /\ outages' = outages + 1 /\ broken' = broken \cup {pkg}
  /\ Goes("save")
  /\ UNCHANGED <<files, runs, interrupts, ended>>

(* The new database is written to a file of its own; the old one is moved  *)
(* away, then the new one to its place.                                    *)
SaveDb ==
  /\ Running("install", "save")
  /\ installed_db' = Gone
  /\ With([Top EXCEPT !.step = "replace", !.new_db = (installed_db \ Gone) \cup {pkg}])
  /\ UNCHANGED <<manifests, unpacked, postinstall, history>>

(* With --nodeps the loop goes on in the package's directory.              *)
RequiresFirst ==                  \* mutant: the database is written when all is there
  /\ Running("install", "replace")
  /\ installed_db' = Top.new_db \ {pkg}
  /\ With([Top EXCEPT !.step = "requires", !.todo = Requires[pkg]])
  /\ UNCHANGED <<manifests, unpacked, postinstall, history>>
ReplaceDb ==
  /\ Running("install", "replace")
  /\ installed_db' = Top.new_db
  /\ ended' = [ended EXCEPT !.news = @ \/ Len(stack) = 1]
  /\ With(IF Top.nodeps THEN [NextTarget(Top) EXCEPT !.away = TRUE]
          ELSE [Top EXCEPT !.step = "requires", !.todo = Requires[pkg]])
  /\ UNCHANGED <<manifests, unpacked, postinstall, runs, interrupts, outages, broken>>

(* One apt-cyg install --noscripts for each package that is required and   *)
(* not installed.                                                          *)
StopsAtInstalled ==               \* mutant: break for continue
  /\ Running("install", "requires") /\ Top.todo # <<>>
  /\ IF Head(Top.todo) \in installed_db THEN Goes("scripts")
     ELSE stack' = Append(stack, Process("install", <<Head(Top.todo)>>, FALSE, TRUE))
  /\ UNCHANGED <<files, history>>
Require ==
  /\ Running("install", "requires") /\ Top.todo # <<>>
  /\ IF Head(Top.todo) \in installed_db THEN With([Top EXCEPT !.todo = Tail(@)])
     ELSE stack' = Append(stack, Process("install", <<Head(Top.todo)>>, FALSE, TRUE))
  /\ UNCHANGED <<files, history>>

RequiredAll ==
  /\ Running("install", "requires") /\ Top.todo = <<>>
  /\ With(IF Top.noscripts THEN NextTarget(Top) ELSE [Top EXCEPT !.step = "scripts"])
  /\ UNCHANGED <<files, history>>

RunScript ==
  /\ Running("install", "scripts")
  /\ \E p \in postinstall : postinstall' = postinstall \ {p}
  /\ UNCHANGED <<installed_db, manifests, unpacked, stack, history>>

RunsOwnScript ==                  \* mutant: only the target's own script is run
  /\ Running("install", "scripts") /\ pkg \notin postinstall
  /\ With(NextTarget(Top))
  /\ UNCHANGED <<files, history>>
ScriptsRun ==
  /\ Running("install", "scripts") /\ postinstall = {}
  /\ With(NextTarget(Top))
  /\ UNCHANGED <<files, history>>

-----------------------------------------------------------------------------
(* apt-remove.  A package that is not in the database is skipped; one with *)
(* no manifest, or an essential one, ends the process.                     *)
RemoveNext ==
  /\ Running("remove", "next") /\ Top.targets # <<>>
  /\ IF pkg \notin installed_db THEN With(NextTarget(Top)) /\ UNCHANGED ended
     ELSE IF pkg \notin manifests \/ pkg \in Essential THEN Ends /\ Fails
     ELSE Goes("files") /\ UNCHANGED ended
  /\ UNCHANGED <<files, runs, interrupts, outages, broken>>

RemoveFiles ==
  /\ Running("remove", "files")
  /\ unpacked' = unpacked \ {pkg} /\ postinstall' = postinstall \ {pkg}
  /\ Goes("manifest")
  /\ UNCHANGED <<installed_db, manifests, history>>

RemoveManifest ==
  /\ Running("remove", "manifest")
  /\ manifests' = manifests \ {pkg}
  /\ Goes("entry")
  /\ UNCHANGED <<installed_db, unpacked, postinstall, history>>

RemoveEntry ==
  /\ Running("remove", "entry")
  /\ installed_db' = installed_db \ {pkg}
  /\ With(NextTarget(Top))
  /\ UNCHANGED <<manifests, unpacked, postinstall, history>>

Next ==
  \/ RunCommand \/ Interrupt \/ EndOfTargets
  \/ InstallNext \/ Download \/ DownloadFails \/ Unpack \/ UnpackFails
  \/ SaveDb \/ ReplaceDb
  \/ Require \/ RequiredAll \/ RunScript \/ ScriptsRun
  \/ RemoveNext \/ RemoveFiles \/ RemoveManifest \/ RemoveEntry
Spec == Init /\ [][Next]_vars

-----------------------------------------------------------------------------
TypeOK ==
  /\ installed_db \in (SUBSET Packages) \cup {Gone}
  /\ manifests \subseteq Packages /\ unpacked \subseteq Packages
  /\ postinstall \subseteq Packages /\ broken \subseteq Packages

(* Packages that require each other do not install each other for ever:    *)
(* no two processes of the stack are at work on the same package.          *)
NoPackageTwice ==
  \A j, k \in DOMAIN stack :
    j # k /\ stack[j].step # "next" /\ stack[k].step # "next" =>
      Head(stack[j].targets) # Head(stack[k].targets)

(* Whatever is in the database is in place and can be removed again,       *)
(* wherever a command was interrupted, unless it was a removal, and unless *)
(* tar failed.                                                             *)
DatabaseTrue ==
  installed_db # Gone => \A p \in installed_db \ broken :
    \/ p \in unpacked /\ p \in manifests
    \/ stack # <<>> /\ Top.op = "remove" /\ Top.step # "next" /\ p = pkg

(* An install that has no failure leaves its targets in a database that    *)
(* has everything its packages require, if it found one like that.         *)
StaysClosed ==
  /\ stack = <<>> /\ ended.ok /\ ended.closed
  /\ ended.command.op = "install" /\ ~ended.command.nodeps
  => Closed /\ ToSet(ended.command.targets) \subseteq installed_db

(* When an install with a new target is through, the scripts of everything *)
(* it installed on the way have run, though the processes started for what *)
(* the targets require run none.                                           *)
AllScriptsRun ==
  stack = <<>> /\ ended.ok /\ ended.news /\ ~ended.command.nodeps => postinstall = {}
=============================================================================
