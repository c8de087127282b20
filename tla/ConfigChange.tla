---------------------------- MODULE ConfigChange ----------------------------
(***************************************************************************)
(* change.rs, config_io.rs and backup.rs for one configuration file of one *)
(* provider: callers switch items in it, one at a time under the provider's*)
(* turn, by editing the document in place or by running the provider's CLI;*)
(* an account change publishes the account's name in the same file         *)
(* (ConfigIo::patch_account_identity), and the provider's own programs     *)
(* write it whenever they like.  The account change holds the provider's   *)
(* own lock on the file, as those programs do; a switch does not.          *)
(*                                                                         *)
(* A definition placed just before the one whose name it extends is that   *)
(* one with a mistake in it; nothing uses it.                              *)
(***************************************************************************)
EXTENDS Naturals

CONSTANTS Caller,       \* threads that ask for changes
          NoCaller,
          Listed, Overridden, Plugin, \* what is switched, by how it is (below)
          Absent, Torn, \* no file there; a file cut short
          None,
          RemovesFirst, \* Windows: the old file is removed before the rename
          MaxSwitches,  \* bound: changes asked for
          MaxPublished, \* bound: names published
          MaxOutside,   \* bound: writes of the provider's programs
          MaxSlips      \* bound: failed file operations, and exits of the app

(* Servers in the list of a recorded project, skills as an entry added when *)
(* it is missing, plugins by the provider's CLI.                            *)
Item    == Listed \cup Overridden \cup Plugin
Name    == 0..MaxPublished                     \* the account named in the file
Doc     == [items : [Item -> {"on", "off", "gone"}], name : Name]
Content == Doc \cup {Absent, Torn}
Empty   == [items |-> [i \in Item |-> "gone"], name |-> 0]

Request == [item : Item, to : {"on", "off"}]

ASSUME ConfigAssumption ==
  /\ RemovesFirst \in BOOLEAN
  /\ {MaxSwitches, MaxPublished, MaxOutside, MaxSlips} \subseteq Nat
  /\ NoCaller \notin Caller
  /\ Plugin \cap Overridden = {}
  /\ Absent # Torn /\ {Absent, Torn} \cap Doc = {}
  /\ None \notin Content \cup Request

VARIABLES file,      \* what is at the file's path
          turn,      \* the provider's mutex
          doing,     \* where each caller is in Changes::make
          request,   \* what it was asked
          backup,    \* its copy of the file, Absent when there was none
          original,  \* the text it read to edit
          publisher, \* the account change: step, what it read, what it writes
          writing,   \* what a program is in the middle of writing, Absent when
                     \* the file it writes is no longer at the path
          left,      \* what is left of each bound
          made,      \* ghost: the last switch answered done, for each item
          named,     \* ghost: the name last published
          stored,    \* ghost: the newest backup
          accepted,  \* ghost: the content that last stood
          raced,     \* ghost: another writer wrote in the middle of a change
          overlapped \* ghost: a change and an account change ran together

locals     == <<turn, doing, request, backup, original>>
configVars == <<file, locals, publisher, writing, left, made, named, stored,
                accepted, raced, overlapped>>

NoPublisher   == [step |-> "idle", read |-> None, write |-> None]
Window == {"backed", "read", "removed", "replaced", "failed", "restoring", "cli"}
Within == \E c \in Caller : doing[c] \in Window \* a change is past its backup

ConfigInit ==
  /\ file \in {Absent, [Empty EXCEPT !.items = [i \in Item |-> "on"]]}
  /\ turn = NoCaller
  /\ doing = [c \in Caller |-> "idle"]
  /\ request = [c \in Caller |-> None]
  /\ backup = [c \in Caller |-> None]
  /\ original = [c \in Caller |-> None]
  /\ publisher = NoPublisher
  /\ writing = None
  /\ left = [asked |-> MaxSwitches, published |-> MaxPublished,
             writing |-> MaxOutside, slips |-> MaxSlips]
  /\ made = [i \in Item |-> None]
  /\ named = None
  /\ stored = None
  /\ accepted = file
  /\ raced = FALSE
  /\ overlapped = FALSE

ghosts == <<made, named, stored, accepted, raced, overlapped>>

May(kind) == left[kind] > 0
TakeOff(kind) == left' = [left EXCEPT ![kind] = @ - 1]

(* The caller is answered; its turn ends as it returns.                     *)
Leave(c) ==
  /\ doing' = [doing EXCEPT ![c] = "idle"]
  /\ request' = [request EXCEPT ![c] = None]
  /\ backup' = [backup EXCEPT ![c] = None]
  /\ original' = [original EXCEPT ![c] = None]
  /\ turn' = NoCaller

To(c, step) == /\ doing' = [doing EXCEPT ![c] = step]
               /\ UNCHANGED <<turn, request, backup>>

Ask(c) ==
  /\ doing[c] = "idle" /\ May("asked") /\ TakeOff("asked")
  /\ \E r \in Request : request' = [request EXCEPT ![c] = r]
  /\ doing' = [doing EXCEPT ![c] = "asked"]
  /\ UNCHANGED <<file, turn, backup, original, publisher, writing, ghosts>>

(* The document with a switch made in it; a list refuses what is not there. *)
Edited(content, r) == [content EXCEPT !.items[r.item] = r.to]
Base(content) == IF content = Absent THEN Empty ELSE content
Refuses(content, r) ==
  \/ content = Torn
  \/ content # Torn /\ r.item \notin Overridden /\ Base(content).items[r.item] = "gone"

(* The turn is taken, then the item is looked up in what the file shows.    *)
TakeTurnUnlocked(c) ==
  /\ doing[c] = "asked"
  /\ turn' = c
  /\ IF Refuses(file, request[c])
     THEN doing' = [doing EXCEPT ![c] = "refused"]
     ELSE doing' = [doing EXCEPT ![c] = "checked"]
  /\ UNCHANGED <<file, request, backup, original, publisher, writing, left, ghosts>>

TakeTurn(c) ==
  /\ doing[c] = "asked" /\ turn = NoCaller
  /\ turn' = c
  /\ IF Refuses(file, request[c])
     THEN doing' = [doing EXCEPT ![c] = "refused"]
     ELSE doing' = [doing EXCEPT ![c] = "checked"]
  /\ UNCHANGED <<file, request, backup, original, publisher, writing, left, ghosts>>

Refused(c) ==
  /\ doing[c] = "refused" /\ Leave(c)
  /\ UNCHANGED <<file, publisher, writing, left, ghosts>>

(* Every file the step touches is copied first.                             *)
BackUpOnce(c) ==
  /\ doing[c] = "checked"
  /\ backup' = [backup EXCEPT ![c] = file]
  /\ stored' = IF file = Absent \/ stored # None THEN stored ELSE file
  /\ doing' = [doing EXCEPT ![c] = IF request[c].item \in Plugin THEN "cli" ELSE "backed"]
  /\ overlapped' = (overlapped \/ publisher # NoPublisher)
  /\ raced' = (raced \/ writing # None)
  /\ UNCHANGED <<file, turn, request, original, publisher, writing, left,
                 made, named, accepted>>

BackUp(c) ==
  /\ doing[c] = "checked"
  /\ backup' = [backup EXCEPT ![c] = file]
  /\ stored' = IF file = Absent THEN stored ELSE file
  /\ doing' = [doing EXCEPT ![c] = IF request[c].item \in Plugin THEN "cli" ELSE "backed"]
  /\ overlapped' = (overlapped \/ publisher # NoPublisher)
  /\ raced' = (raced \/ writing # None)
  /\ UNCHANGED <<file, turn, request, original, publisher, writing, left,
                 made, named, accepted>>

BackUpFails(c) ==
  /\ doing[c] = "checked" /\ May("slips") /\ TakeOff("slips") /\ Leave(c)
  /\ UNCHANGED <<file, publisher, writing, ghosts>>

(* The document is read again, under the backup, and edited.                *)
ReadDocument(c) ==
  /\ doing[c] = "backed"
  /\ IF Refuses(file, request[c])
     THEN Leave(c)
     ELSE To(c, "read") /\ original' = [original EXCEPT ![c] = file]
  /\ UNCHANGED <<file, publisher, writing, left, ghosts>>

(* A step of the replacement that fails leads to the rollback.              *)
WriteFails(c) ==
  /\ doing[c] \in {"read", "removed"} /\ May("slips") /\ TakeOff("slips")
  /\ To(c, "failed")
  /\ UNCHANGED <<file, original, publisher, writing, ghosts>>

Unlinks == writing' = IF writing = None THEN None ELSE Absent

RemoveOld(c) ==
  /\ RemovesFirst /\ doing[c] = "read" /\ file # Absent
  /\ file' = Absent /\ Unlinks
  /\ To(c, "removed")
  /\ UNCHANGED <<original, publisher, left, ghosts>>

Rename(c) ==
  /\ doing[c] = "removed" \/ (doing[c] = "read" /\ (RemovesFirst => file = Absent))
  /\ file' = Edited(Base(original[c]), request[c]) /\ Unlinks
  /\ To(c, "replaced")
  /\ UNCHANGED <<original, publisher, left, ghosts>>

(* Done when what is at the path now parses, whoever wrote it.              *)
ReadBackFile(c) ==
  /\ doing[c] = "replaced"
  /\ IF file \in Doc
     THEN /\ Leave(c)
          /\ made' = [made EXCEPT ![request[c].item] =
                         IF file.items[request[c].item] = request[c].to
                         THEN request[c].to ELSE None]
          /\ accepted' = file
     ELSE /\ To(c, "failed")
          /\ UNCHANGED <<original, made, accepted>>
  /\ UNCHANGED <<file, publisher, writing, left, named, stored, raced, overlapped>>

ReadBackFails(c) ==
  /\ doing[c] = "replaced" /\ May("slips") /\ TakeOff("slips")
  /\ To(c, "failed")
  /\ UNCHANGED <<file, original, publisher, writing, ghosts>>

(* rollback: the backup is copied over the file, which is not one moment;   *)
(* a failure of it is passed over.                                          *)
Rollback(c) ==
  /\ doing[c] = "failed"
  /\ \/ /\ backup[c] = Absent
        /\ Leave(c)
        /\ file' = original[c]
        /\ IF file' = Absent THEN Unlinks ELSE UNCHANGED writing
     \/ /\ backup[c] # Absent
        /\ file' = Torn
        /\ To(c, "restoring")
        /\ UNCHANGED <<original, writing>>
  /\ UNCHANGED <<publisher, left, ghosts>>

Restored(c) ==
  /\ doing[c] = "restoring"
  /\ Leave(c)
  /\ file' = backup[c]
  /\ UNCHANGED <<publisher, writing, left, ghosts>>

RestoreFails(c) ==
  /\ doing[c] \in {"failed", "restoring"} /\ May("slips") /\ TakeOff("slips")
  /\ Leave(c)
  /\ IF file \in Doc
     THEN /\ made' = [made EXCEPT ![request[c].item] = None]
          /\ accepted' = file
          /\ UNCHANGED named
     ELSE /\ made' = [i \in Item |-> None] /\ named' = None
          /\ UNCHANGED accepted
  /\ UNCHANGED <<file, publisher, writing, stored, raced, overlapped>>

(* The CLI edits the file itself; a run that fails or takes too long may    *)
(* have written first, and is not rolled back.                              *)
RunCli(c) ==
  /\ doing[c] = "cli"
  /\ Leave(c)
  /\ \/ /\ publisher = NoPublisher /\ writing = None \* it has the file's lock
        /\ ~Refuses(file, request[c])
        /\ file' = Edited(file, request[c])
        /\ accepted' = file'
        /\ \/ /\ made' = [made EXCEPT ![request[c].item] = request[c].to]
              /\ UNCHANGED left
           \/ /\ May("slips") /\ TakeOff("slips")
              /\ made' = [made EXCEPT ![request[c].item] = None]
     \/ /\ Refuses(file, request[c]) \/ May("slips")
        /\ left' = [left EXCEPT !.slips = IF Refuses(file, request[c]) THEN @ ELSE @ - 1]
        /\ UNCHANGED <<file, accepted, made>>
  /\ UNCHANGED <<publisher, writing, named, stored, raced, overlapped>>

---------------------------------------------------------------------------
(* ConfigIo::patch_account_identity, under the locks of the account change. *)
PublishRead ==
  /\ publisher = NoPublisher /\ writing = None /\ May("published") /\ TakeOff("published")
  /\ file # Torn
  /\ publisher' = [step |-> "write", read |-> Base(file),
                   write |-> [Base(file) EXCEPT !.name = MaxPublished - left.published + 1]]
  /\ overlapped' = (overlapped \/ Within)
  /\ UNCHANGED <<file, locals, writing, made, named, stored, accepted, raced>>

PublishWrite ==
  /\ publisher.step = "write"
  /\ \/ /\ file' = publisher.write
        /\ accepted' = file'
        /\ publisher' = [publisher EXCEPT !.step = "check"]
        /\ UNCHANGED left
     \/ /\ May("slips") /\ TakeOff("slips")
        /\ publisher' = [publisher EXCEPT !.step = "restore"]
        /\ file' \in {file, publisher.write}
        /\ accepted' = IF file' = file THEN accepted ELSE file'
  /\ raced' = (raced \/ Within)
  /\ UNCHANGED <<locals, writing, made, named, stored, overlapped>>

PublishCheck ==
  /\ publisher.step = "check"
  /\ IF file = publisher.write
     THEN publisher' = NoPublisher /\ named' = publisher.write.name
     ELSE publisher' = [publisher EXCEPT !.step = "restore"] /\ UNCHANGED named
  /\ UNCHANGED <<file, locals, writing, left, made, stored, accepted, raced, overlapped>>

(* What was read is written back; failing that, the journal is kept.        *)
PublishRestore ==
  /\ publisher.step = "restore"
  /\ publisher' = NoPublisher
  /\ \/ /\ file' = publisher.read
        /\ accepted' = file'
        /\ UNCHANGED <<left, named>>
     \/ /\ May("slips") /\ TakeOff("slips")
        /\ named' = None
        /\ UNCHANGED <<file, accepted>>
  /\ raced' = (raced \/ Within)
  /\ UNCHANGED <<locals, writing, made, stored, overlapped>>

StillMade(doc) == [i \in Item |-> IF made[i] = doc.items[i] THEN made[i] ELSE None]

(* The provider's programs, which hold the file's lock while they write:    *)
(* at once, or over the file in two moments.  They edit the file they find. *)
OutsideWrite ==
  /\ publisher = NoPublisher /\ writing = None /\ May("writing") /\ TakeOff("writing")
  /\ file \in Doc
  /\ \E i \in Item, to \in {"on", "gone"} :
       LET next == [file EXCEPT !.items[i] = to] IN
       /\ made' = [made EXCEPT ![i] = None]
       /\ \/ file' = next /\ writing' = None /\ accepted' = next
          \/ file' = Torn /\ writing' = next /\ UNCHANGED accepted
  /\ raced' = (raced \/ Within)
  /\ UNCHANGED <<locals, publisher, named, stored, overlapped>>

OutsideDone ==
  /\ writing # None
  /\ writing' = None
  /\ IF writing = Absent
     THEN UNCHANGED <<file, accepted, made, raced>>
     ELSE /\ file' \in IF file = Torn THEN {writing} ELSE {file, writing, Torn}
          /\ accepted' = IF file' \in Doc THEN file' ELSE accepted
          /\ made' = IF file' \in Doc THEN StillMade(file') ELSE made
          /\ raced' = (raced \/ Within)
  /\ UNCHANGED <<locals, publisher, left, named, stored, overlapped>>

(* The app ends anywhere; the file and the backups stay.                    *)
Exit ==
  /\ May("slips") /\ TakeOff("slips")
  /\ \/ Within
     \/ publisher # NoPublisher
  /\ turn' = NoCaller
  /\ doing' = [c \in Caller |-> "idle"]
  /\ request' = [c \in Caller |-> None]
  /\ backup' = [c \in Caller |-> None]
  /\ original' = [c \in Caller |-> None]
  /\ publisher' = NoPublisher
  /\ IF file \in Doc
     THEN /\ accepted' = file
          /\ named' = IF named = file.name THEN named ELSE None
          /\ made' = StillMade(file)
     ELSE named' = None /\ made' = [i \in Item |-> None] /\ UNCHANGED accepted
  /\ UNCHANGED <<file, writing, stored, raced, overlapped>>

ConfigNext ==
  \/ \E c \in Caller :
       \/ Ask(c) \/ TakeTurn(c) \/ Refused(c) \/ BackUp(c) \/ BackUpFails(c)
       \/ ReadDocument(c) \/ WriteFails(c) \/ RemoveOld(c) \/ Rename(c) \/ ReadBackFile(c)
       \/ ReadBackFails(c) \/ Rollback(c) \/ Restored(c) \/ RestoreFails(c) \/ RunCli(c)
  \/ PublishRead \/ PublishWrite \/ PublishCheck \/ PublishRestore
  \/ OutsideWrite \/ OutsideDone \/ Exit

ConfigSpec == ConfigInit /\ [][ConfigNext]_configVars

---------------------------------------------------------------------------
ConfigTypeOK ==
  /\ file \in Content /\ stored \in Content \cup {None} /\ accepted \in Content
  /\ turn \in Caller \cup {NoCaller}
  /\ request \in [Caller -> Request \cup {None}]
  /\ backup \in [Caller -> Content \cup {None}]
  /\ original \in [Caller -> Content \cup {None}]
  /\ writing \in Doc \cup {Absent, None}

(* While no account change runs together with a change of the file, a switch*)
(* answered done stands until a program of the provider changes it, and so  *)
(* does the name last published (Changes::turn, ConfigIo::commit: neither a *)
(* later change nor the rollback of one that failed takes it back).         *)
NothingUndone ==
  file \in Doc /\ ~overlapped /\ ~Within =>
    /\ \A i \in Item : made[i] \in {None, file.items[i]}
    /\ publisher = NoPublisher => named \in {None, file.name}

(* Whatever fails and wherever the app ends in the middle of a change nobody*)
(* else wrote into, the content that last stood is in the file or in the    *)
(* newest backup (Changes::make: back_up before the step; atomic_replace).  *)
ContentSurvives ==
  ~raced /\ file \notin Doc => writing # None \/ accepted \in {Absent, stored}

(* The name an account change publishes stays in the file (the locks of the *)
(* account change are said to cover publication).                           *)
NamePublishedStays ==
  file \in Doc /\ publisher = NoPublisher => named \in {None, file.name}
=============================================================================
