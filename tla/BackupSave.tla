----------------------------- MODULE BackupSave -----------------------------
(***************************************************************************)
(* The battery RAM of a game kept in a file (src/storage/bk_save.c): the   *)
(* core asks for the file once a game is loaded and writes its RAM through *)
(* the file mounter; the firmware makes it write what it changed before    *)
(* another game, another core or a reboot replaces it.                     *)
(*                                                                         *)
(* One img slot, a RAM of one sector.  A sector is the game it belongs to  *)
(* and how often the game changed it.  The loop of APP is steps:           *)
(* img_tick(), bk_tick(), then what the user asks for.  The frames of a    *)
(* request and its data are pulled by any transfer, in that order; a core  *)
(* that is reset sends no more of them (docs/protocol.md, section 6).      *)
(***************************************************************************)
EXTENDS Integers

CONSTANTS
  Games,       \* the games of the user
  None,        \* no game
  MaxChanges,  \* bound: how often a game changes its RAM
  MaxFails     \* bound: failed card operations

ASSUME BackupAssumption ==
  Games # {} /\ None \notin Games /\ MaxChanges \in Nat /\ MaxFails \in Nat

Ram  == [game : Games \cup {None}, n : 0 .. MaxChanges]
Zero == [game |-> None, n |-> 0]

VARIABLES
  bkApp,      \* where APP is: "img", "bk", "ui", "flush", "flushed", "load", "send"
  purpose,    \* what the flush is for: "game", "core" or "reboot"
  bk_slot,    \* the slot has the save mounted
  bk_request, \* req_pending: the core asked for its file
  game_name,
  bkFile,     \* the game whose file is open in the slot, or None
  image,      \* the .sav of each game: what its sector holds
  sector,     \* the write request of the core: [st, ram], st "none", "sent",
              \* "taken" (req_pending of img_mount.c) or "whole" (its data came too)
  flush_result,
  ram,        \* the RAM of the running game
  kept,       \* the core: the change that is known to be in the file
  sees,       \* the core: "nothing", "asks", "mounted" or "flushing"
  reply,      \* the core's answer to a flush, on its way
  owed,       \* the change the flush has to bring to the file
  flushOk,    \* what the last flush reported
  bkFails

bkVars == <<bkApp, purpose, bk_slot, bk_request, game_name, bkFile, image, sector,
            flush_result, ram, kept, sees, reply, owed, flushOk, bkFails>>
bkCore == <<ram, kept, sees, reply>>
bkSlot == <<bk_slot, bk_request, game_name, bkFile>>
bkFlush == <<purpose, flush_result, owed, flushOk>>

BackupTypeOK ==
  /\ bkApp \in {"img", "bk", "ui", "flush", "flushed", "load", "send"}
  /\ purpose \in {"game", "core", "reboot"}
  /\ bk_slot \in BOOLEAN /\ bk_request \in BOOLEAN /\ flushOk \in BOOLEAN
  /\ {game_name, bkFile} \subseteq Games \cup {None}
  /\ image \in [Games -> Ram] /\ ram \in Ram
  /\ sector \in [st : {"none", "sent", "taken", "whole"}, ram : Ram]
  /\ {flush_result, reply} \subseteq {"none", "done", "error"}
  /\ kept \in 0 .. MaxChanges /\ owed \in 0 .. MaxChanges
  /\ sees \in {"nothing", "asks", "mounted", "flushing"}
  /\ bkFails \in 0 .. MaxFails

NoSector == [st |-> "none", ram |-> Zero]

BackupInit ==
  /\ bkApp = "img" /\ purpose = "core"
  /\ bk_slot = FALSE /\ bk_request = FALSE /\ game_name = None /\ bkFile = None
  /\ image = [g \in Games |-> Zero]
  /\ sector = NoSector /\ flush_result = "none"
  /\ ram = Zero /\ kept = 0 /\ sees = "nothing" /\ reply = "none" /\ owed = 0 /\ flushOk = TRUE
  /\ bkFails = 0

Fail == bkFails < MaxFails /\ bkFails' = bkFails + 1

-----------------------------------------------------------------------------
(* The core.                                                               *)

\* Its frames come in order: none is pulled before a reply sent earlier.
AskFile ==
  /\ sees = "nothing" /\ ram.game # None /\ reply = "none"
  /\ sees' = "asks" /\ bk_request' = TRUE
  /\ UNCHANGED <<bkApp, bk_slot, game_name, bkFile, image, sector, bkFlush, ram, kept,
                 reply, bkFails>>

Play ==
  /\ ram.game # None /\ ram.n < MaxChanges /\ sees # "asks"
  /\ ram' = [ram EXCEPT !.n = @ + 1]
  /\ UNCHANGED <<bkApp, bkSlot, image, sector, bkFlush, kept, sees, reply, bkFails>>

\* A write request: by itself a while after a change, or for the flush.
AskWrite ==
  /\ sees \in {"mounted", "flushing"} /\ ram.n > kept
  /\ sector.st = "none" /\ reply = "none"
  /\ sector' = [st |-> "sent", ram |-> ram]
  /\ UNCHANGED <<bkApp, bkSlot, image, bkFlush, bkCore, bkFails>>

\* No dirty sector is left, or the core gives up on one.
Answer ==
  /\ sees = "flushing" /\ reply = "none" /\ sector.st = "none"
  /\ \/ ram.n = kept /\ reply' = "done" /\ UNCHANGED bkFails
     \/ Fail /\ reply' = "error"
  /\ sees' = "mounted"
  /\ UNCHANGED <<bkApp, bkSlot, bkFlush, image, sector, ram, kept>>

\* A transfer pulls the answer.
on_img_flush ==
  /\ reply # "none" /\ reply' = "none"
  /\ flush_result' = IF bk_slot THEN reply ELSE flush_result
  /\ UNCHANGED <<bkApp, purpose, bkSlot, image, sector, ram, kept, sees, owed, flushOk, bkFails>>

-----------------------------------------------------------------------------
(* The file mounter, as far as the slot is concerned.                      *)

\* Any transfer pulls the request, then its data (on_img_sec(), on_img_buf_data()).
Pull ==
  /\ \/ sector.st = "sent" /\ sector' = [sector EXCEPT !.st = "taken"]
     \/ sector.st = "taken" /\ sector' = [sector EXCEPT !.st = "whole"]
  /\ UNCHANGED <<bkApp, bkSlot, image, bkFlush, bkCore, bkFails>>

\* img_serve(): pulls the rest of the data; the core takes the answer.  A read
\* only file is not mounted as a save, so no write is dropped.
serve ==
  /\ sector.st \in {"taken", "whole"}
  /\ sector' = NoSector
  /\ \/ /\ bkFile # None
        /\ image' = [image EXCEPT ![bkFile] = sector.ram]
        /\ kept' = IF ram.game = sector.ram.game THEN sector.ram.n ELSE kept
        /\ UNCHANGED bkFails
     \/ bkFile = None /\ UNCHANGED <<image, kept, bkFails>>
     \/ bkFile # None /\ Fail /\ UNCHANGED <<image, kept>>

\* What the core makes of its size: it reads its sectors and runs, or goes on
\* without a save.
Shown(g) ==
  IF g = None THEN /\ sees' = "nothing" /\ UNCHANGED <<ram, kept>>
  ELSE IF sees = "asks"
  THEN /\ sees' = "mounted" /\ ram' = [ram EXCEPT !.n = image[g].n] /\ kept' = image[g].n
  ELSE UNCHANGED <<ram, kept, sees>>

img_mount(g) == bkFile' = g /\ Shown(g)

-----------------------------------------------------------------------------
(* bk_save.c                                                               *)

ImgTick ==
  /\ bkApp = "img" /\ bkApp' = "bk"
  /\ \/ serve
     \/ sector.st \in {"none", "sent"} /\ UNCHANGED <<sector, image, kept, bkFails>>
  /\ UNCHANGED <<bkSlot, bkFlush, ram, sees, reply>>

\* A core that gets no mount in about a second goes on without a save.
bk_tick ==
  /\ bkApp = "bk" /\ bkApp' = "ui"
  /\ \/ ~bk_request /\ UNCHANGED <<bk_request, bk_slot, bkFile, ram, kept, sees, bkFails>>
     \/ /\ bk_request /\ bk_request' = FALSE
        /\ \/ /\ game_name # None
              /\ img_mount(game_name) /\ bk_slot' = TRUE /\ UNCHANGED bkFails
           \/ /\ game_name = None \/ Fail
              /\ game_name = None => UNCHANGED bkFails
              /\ img_mount(None) /\ bk_slot' = FALSE
  /\ UNCHANGED <<game_name, image, sector, reply, bkFlush>>

\* The user picks a game or a core, or reboots.  A core that did not take its
\* save has no dirty sector.
Pick ==
  /\ bkApp = "ui" /\ bkApp' = "flush"
  /\ purpose' \in {"game", "core", "reboot"}
  /\ owed' = IF sees = "mounted" THEN ram.n ELSE 0
  /\ flush_result' = IF bk_slot /\ sees # "mounted" THEN "done" ELSE "none"
  /\ sees' = IF bk_slot /\ sees = "mounted" THEN "flushing" ELSE sees
  /\ UNCHANGED <<bkSlot, image, sector, ram, kept, reply, flushOk, bkFails>>
NotPicked ==
  /\ bkApp = "ui" /\ bkApp' = "img"
  /\ UNCHANGED <<bkSlot, image, sector, bkFlush, bkCore, bkFails>>

FlushServe ==
  /\ bkApp = "flush" /\ bk_slot /\ flush_result = "none"
  /\ serve
  /\ UNCHANGED <<bkApp, bkSlot, bkFlush, ram, sees, reply>>

\* The answer, or 3 s without one; the file is synced.
bk_flush_result == ~bk_slot \/ flush_result = "done"

bk_flush ==
  /\ bkApp = "flush" /\ bkApp' = "flushed"
  /\ flushOk' = bk_flush_result
  /\ UNCHANGED <<purpose, bkSlot, image, sector, flush_result, bkCore, owed, bkFails>>

\* app_file_loader_send_file(): the save is closed before the game is opened.
\* Mutant: the save is not closed.
bk_close_not == UNCHANGED <<bk_slot, bkFile, ram, kept, sees>>
bk_close ==
  IF bk_slot THEN bk_slot' = FALSE /\ img_mount(None)
  ELSE UNCHANGED <<bk_slot, bkFile, ram, kept, sees>>

CloseGame ==
  /\ bkApp = "flushed" /\ purpose = "game" /\ bkApp' = "load"
  /\ bk_close
  /\ UNCHANGED <<bk_request, game_name, image, sector, reply, bkFlush, bkFails>>

\* The core is reset: the data of a request that is not all pulled never comes.
CutRequest == IF sector.st = "whole" THEN sector ELSE NoSector

\* Mutant: the name of the first game is kept.
bk_set_game_once(g) == game_name' = IF game_name = None THEN g ELSE game_name
bk_set_game(g) == game_name' = g

\* The game's file opens, the core is reset and gets it; or it does not open.
send_file ==
  /\ bkApp = "load" /\ bkApp' = "img"
  /\ \/ \E g \in Games :
          /\ bk_set_game(g)
          /\ ram' = [game |-> g, n |-> 0] /\ kept' = 0 /\ sees' = "nothing"
          /\ sector' = CutRequest /\ reply' = reply /\ UNCHANGED bkFails
     \/ Fail /\ UNCHANGED <<game_name, bkCore, sector>>
  /\ UNCHANGED <<bk_slot, bk_request, bkFile, image, bkFlush>>

\* configure() and read_core(): img_close_all(), bk_forget().  A reboot forgets
\* the same.
bk_forget == bk_slot' = FALSE /\ bk_request' = FALSE /\ game_name' = None

replaced ==
  /\ bkApp = "flushed" /\ purpose # "game"
  /\ bkApp' = "img"
  /\ bkFile' = None /\ sector' = NoSector /\ bk_forget
  /\ ram' = Zero /\ kept' = 0 /\ sees' = "nothing" /\ reply' = "none"
  /\ UNCHANGED <<image, bkFlush, bkFails>>

BackupNext ==
  \/ AskFile \/ Play \/ AskWrite \/ Answer \/ on_img_flush \/ Pull
  \/ ImgTick \/ bk_tick \/ Pick \/ NotPicked \/ FlushServe \/ bk_flush
  \/ CloseGame \/ send_file \/ replaced
BackupSpec == BackupInit /\ [][BackupNext]_bkVars

-----------------------------------------------------------------------------
\* The save file of a game never holds a sector of another game: a write request the
\* replaced game left behind is not served into the file mounted next (bk_close(),
\* bk_tick(), bk_forget() and the order of img_tick() and bk_tick() in the loop).
SaveOfItsGame == \A g \in Games : image[g].game \in {g, None}

\* A flush that reports success leaves the file with everything the game had
\* changed when the flush began, before anything replaces the game; a late
\* answer to an earlier flush never counts for it.
FlushHonest ==
  bkApp = "flushed" /\ flushOk /\ bk_slot /\ bkFile = ram.game => image[bkFile].n >= owed

\* A save is the game's own and whole (bk_save.c).
SaveRight == SaveOfItsGame /\ FlushHonest
=============================================================================
