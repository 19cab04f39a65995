------------------------------ MODULE WebUpdate ------------------------------
(***************************************************************************)
(* The update mode of every device (src/src/WebUpdateService.cpp): a web   *)
(* server that serves one connection at a time, patient with silent ones   *)
(* for a moment only (src/src/ResponsiveWebServer.h), sends strangers'     *)
(* probes to its own page (src/src/CaptivePortal.h), flashes an uploaded   *)
(* firmware image, and on a config box stores images of other devices.     *)
(*                                                                         *)
(* The server hands an upload over piece by piece, START, WRITEs, and END  *)
(* or ABORTED, then asks for an answer unless it was aborted, all in one   *)
(* handleClient().  The form has one file.  The unit of time is an         *)
(* iteration of the caller's loop.                                         *)
(***************************************************************************)
EXTENDS Integers, Sequences, FiniteSets, SequencesExt

CONSTANTS
    Clients,    \* connections of browsers
    Files,      \* [named, valid : BOOLEAN] records: may the file be flashed by
                \* its name (or any, without _prefix), and is it an image
    Chunks,     \* pieces a file is handed over in
    Hosts,      \* what requests name as their Host, sequences of characters
    ApIp,       \* the address of the access point, the same
    Grace       \* 250 ms

ASSUME WebAssumption ==
    /\ Files \subseteq [named : BOOLEAN, valid : BOOLEAN]
    /\ Chunks \in Nat \ {0} /\ Grace \in Nat
    /\ ApIp \in Hosts \ {<<>>}
    /\ IsFiniteSet(Clients) /\ "nobody" \notin Clients

Nobody == "nobody"
Closed == [open |-> FALSE]
Opened(file) == [open |-> TRUE, file |-> file, len |-> 0]
Factory == [factory |-> TRUE]
Silence == [path |-> "silent"]
Page(host) == [path |-> "page", host |-> host]
Reboot == [path |-> "reboot"]
Post(path, file) == [path |-> path, file |-> file]
Requests ==
    {Page(host) : host \in Hosts} \cup {Reboot}
        \cup {Post(path, file) : path \in {"update", "store"}, file \in Files}
NoAnswer == [status |-> "none", req |-> Silence]

VARIABLES
    uploading, failed, wrongFile, done, storeActive, storeOk,  \* WebUpdateService
    cur, idle,   \* _currentClient and the time since _statusChange
    backlog,     \* connections that wait to be accepted
    ask,         \* [Clients -> what it has sent]
    redirected,  \* the browsers that were told to ask again
    waited,      \* [Clients -> iterations its request has waited]
    part,        \* how far the upload is: "none", "start", "data" or "done"
    left,        \* pieces still to come
    update,      \* the update library: what it has written
    target,      \* the store hooks' open target
    stored,      \* the image stored last
    running, boot,   \* the firmware that runs and the one the boot slot selects
    answer       \* the answer just given

flags == <<uploading, failed, wrongFile, done>>
storeFlags == <<storeActive, storeOk>>
conns == <<backlog, ask, redirected, waited>>
server == <<cur, idle, conns>>
flash == <<update, running, boot>>
store == <<target, stored>>
vars == <<flags, storeFlags, server, part, left, flash, store, answer>>

Init ==
    /\ uploading = FALSE /\ failed = FALSE /\ wrongFile = FALSE /\ done = FALSE
    /\ storeActive = FALSE /\ storeOk = FALSE
    /\ cur = Nobody /\ idle = 0 /\ backlog = <<>>
    /\ ask = [c \in Clients |-> Silence] /\ waited = [c \in Clients |-> 0]
    /\ redirected = {}
    /\ part = "none" /\ left = 0
    /\ update = Closed /\ target = Closed
    /\ running = Factory /\ boot = Factory /\ stored = Factory
    /\ answer = NoAnswer

\* By the caller, whose deadline has passed or who has seen updateDone(), by a
\* user, or for want of power; and the update mode begins again.
Restart ==
    /\ uploading' = FALSE /\ failed' = FALSE /\ wrongFile' = FALSE /\ done' = FALSE
    /\ storeActive' = FALSE /\ storeOk' = FALSE
    /\ cur' = Nobody /\ idle' = 0 /\ backlog' = <<>>
    /\ ask' = [c \in Clients |-> Silence] /\ waited' = [c \in Clients |-> 0]
    /\ redirected' = {}
    /\ part' = "none" /\ left' = 0
    /\ update' = Closed /\ target' = Closed
    /\ running' = boot
    /\ UNCHANGED <<boot, stored>>
    /\ answer' = NoAnswer

-----------------------------------------------------------------------------
(* Browsers.                                                               *)

IsOpen(c) == c = cur \/ Contains(backlog, c)
Has(c) == ask[c] # Silence

Connect(c, req) ==
    /\ ~IsOpen(c)
    /\ backlog' = Append(backlog, c)
    /\ ask' = [ask EXCEPT ![c] = req]
    /\ answer' = NoAnswer
    /\ UNCHANGED waited

BrowserRest == <<flags, storeFlags, part, left, flash, store>>

\* A spare connection, or one with a request.
Open(c) ==
    /\ c \notin redirected
    /\ \E req \in Requests \cup {Silence} : Connect(c, req)
    /\ UNCHANGED <<cur, idle, redirected, BrowserRest>>

\* A browser does what the Location header says.
Follow(c) ==
    /\ c \in redirected
    /\ Connect(c, Page(ApIp))
    /\ redirected' = redirected \ {c}
    /\ UNCHANGED <<cur, idle, BrowserRest>>

\* A spare connection is used after all.
UseSpare(c) ==
    /\ IsOpen(c) /\ ~Has(c)
    /\ \E req \in Requests : ask' = [ask EXCEPT ![c] = req]
    /\ answer' = NoAnswer
    /\ UNCHANGED <<cur, idle, backlog, redirected, waited, BrowserRest>>

-----------------------------------------------------------------------------
(* loop(): dropIdleClient(), then handleClient().                          *)

\* (dropsAnyone: also one that has just sent something; neverDrops: leaves it to
\* the server, which waits for five seconds.)
dropsAnyone == cur # Nobody /\ idle > Grace
neverDrops == FALSE
dropsIdleClient == cur # Nobody /\ ~Has(cur) /\ idle > Grace

Kept == IF dropsIdleClient THEN Nobody ELSE cur
Accepts == Kept = Nobody /\ backlog # <<>>
\* Whom handleClient() looks at.
Current == IF Accepts THEN Head(backlog) ELSE Kept

Accept == backlog' = IF Accepts THEN Tail(backlog) ELSE backlog

Waiting == [c \in Clients |-> IF IsOpen(c) /\ Has(c) THEN waited[c] + 1 ELSE 0]

\* What is known of clients without a connection.
Forget(c) ==
    /\ ask' = [ask EXCEPT ![c] = Silence]
    /\ waited' = [Waiting EXCEPT ![c] = 0]

\* The current connection, if any, has not sent anything yet.
Wait ==
    /\ Current \notin {c \in Clients : Has(c)}
    /\ cur' = Current
    /\ idle' = IF Accepts \/ Current = Nobody THEN 0 ELSE idle + 1
    /\ IF dropsIdleClient THEN Forget(cur) ELSE waited' = Waiting /\ UNCHANGED ask
    /\ answer' = NoAnswer
    /\ UNCHANGED <<redirected, part, left>>

\* An empty Host counts as local.
\* (strictAboutHosts: one that wants more than the bare address.)
strictAboutHosts(host) == host # <<>> /\ ~IsStrictPrefix(ApIp, host)
captiveNeedsRedirect(host) ==
    /\ host # <<>>
    /\ \/ ~IsPrefix(ApIp, host)
       \/ Len(host) > Len(ApIp) /\ host[Len(ApIp) + 1] # ":"

Reply(status) == answer' = [status |-> status, req |-> ask[Current]]

captiveRedirect ==
    /\ captiveNeedsRedirect(ask[Current].host)
    /\ Reply("redirect")
    /\ redirected' = redirected \cup {Current}

\* For "/" and everything unknown.
handleRoot ==
    /\ ask[Current].path = "page"
    /\ \/ captiveRedirect
       \/ ~captiveNeedsRedirect(ask[Current].host) /\ Reply("page") /\ UNCHANGED redirected
    /\ Forget(Current)
    /\ cur' = Nobody
    /\ UNCHANGED <<part, left>>

\* The server begins to hand over an upload; _currentClient stays.
Receive ==
    /\ ask[Current].path \in {"update", "store"}
    /\ part' = "start" /\ left' = Chunks
    /\ cur' = Current
    /\ waited' = [Waiting EXCEPT ![Current] = 0]
    /\ answer' = NoAnswer
    /\ UNCHANGED <<ask, redirected>>

Serve == Current # Nobody /\ idle' = 0 /\ (handleRoot \/ Receive)

\* Whoever has seen updateDone() restarts instead.
Loop ==
    /\ part = "none" /\ ~done
    /\ Accept
    /\ Wait \/ Serve
    /\ UNCHANGED <<flags, storeFlags, flash, store>>

Refuse ==
    /\ Reply("busy")
    /\ Forget(Current)
    /\ cur' = Nobody /\ idle' = 0
    /\ Accept
    /\ UNCHANGED <<flags, storeFlags, redirected, part, left, flash, store>>

handleReboot ==
    /\ part = "none" /\ ~done
    /\ Current # Nobody /\ ask[Current] = Reboot
    /\ IF uploading THEN Refuse ELSE Restart

-----------------------------------------------------------------------------
(* Uploads, of the client cur.  The library and the hooks may fail at any  *)
(* call.                                                                   *)

ToFlash == ask[cur].path = "update" /\ UNCHANGED <<storeFlags, store>>
ToStore == ask[cur].path = "store" /\ UNCHANGED <<failed, wrongFile, done, flash>>
File == ask[cur].file

\* (AnyName: a device that takes every image.)
AnyName(file) == TRUE
FitsName(file) == file.named

\* (StartKeepsFlags: an upload that is judged by the last one's flags.)
StartKeepsFlags(wrong, fails) ==
    failed' = (failed \/ wrong \/ fails) /\ wrongFile' = (wrongFile \/ wrong)
StartFlags(wrong, fails) == failed' = (wrong \/ fails) /\ wrongFile' = wrong

UploadStart ==
    /\ ToFlash
    /\ uploading' = TRUE
    /\ \/ ~FitsName(File) /\ StartFlags(TRUE, FALSE) /\ UNCHANGED update
       \/ FitsName(File) /\ ~update.open /\ StartFlags(FALSE, FALSE) /\ update' = Opened(File)
       \/ FitsName(File) /\ StartFlags(FALSE, TRUE) /\ UNCHANGED update
    /\ UNCHANGED <<done, running, boot>>

\* The library closes itself when it cannot write.
UploadWrite ==
    /\ ToFlash
    /\ \/ ~failed /\ update.open /\ update' = [update EXCEPT !.len = @ + 1] /\ UNCHANGED failed
       \/ ~failed /\ failed' = TRUE /\ update' = Closed
       \/ failed /\ UNCHANGED <<failed, update>>
    /\ UNCHANGED <<uploading, wrongFile, done, running, boot>>

\* Update.end(true) looks at the whole image before it selects it.
IsWhole(upload) == upload.open /\ upload.len = Chunks /\ upload.file.valid

UploadEnd ==
    /\ ToFlash
    /\ uploading' = FALSE
    /\ \/ /\ wrongFile
          /\ UNCHANGED <<failed, done, update, boot>>
       \/ /\ ~wrongFile /\ ~failed /\ IsWhole(update)
          /\ done' = TRUE /\ boot' = update.file /\ update' = Closed
          /\ UNCHANGED failed
       \/ /\ ~wrongFile
          /\ failed' = TRUE
          /\ update' = IF failed THEN update ELSE Closed
          /\ UNCHANGED <<done, boot>>
    /\ UNCHANGED <<wrongFile, running>>

UploadAborted ==
    /\ ToFlash
    /\ update' = Closed
    /\ uploading' = FALSE /\ failed' = TRUE
    /\ UNCHANGED <<wrongFile, done, running, boot>>

handleUploadDone ==
    /\ ToFlash
    /\ \/ done /\ Reply("ok") /\ UNCHANGED <<failed, wrongFile>>
       \/ ~done /\ wrongFile /\ Reply("wrong") /\ failed' = FALSE /\ wrongFile' = FALSE
       \/ ~done /\ ~wrongFile /\ Reply("failed") /\ failed' = FALSE /\ UNCHANGED wrongFile
    /\ UNCHANGED <<uploading, done, flash>>

StoreStart ==
    /\ ToStore
    /\ uploading' = TRUE /\ storeOk' = FALSE
    /\ \/ storeActive' = TRUE /\ target' = Opened(File)
       \/ storeActive' = FALSE /\ UNCHANGED target
    /\ UNCHANGED stored

\* end(false) discards.
\* (LeavesOpen: a failed write that is not followed by it.)
LeavesOpen == UNCHANGED target
Discard == target' = Closed

StoreWrite ==
    /\ ToStore
    /\ \/ storeActive /\ target' = [target EXCEPT !.len = @ + 1] /\ UNCHANGED storeActive
       \/ storeActive /\ Discard /\ storeActive' = FALSE
       \/ ~storeActive /\ UNCHANGED <<target, storeActive>>
    /\ UNCHANGED <<uploading, storeOk, stored>>

\* end(true) accepts nothing without a marker.
StoreEnd ==
    /\ ToStore
    /\ uploading' = FALSE /\ storeActive' = FALSE
    /\ \/ storeActive /\ IsWhole(target) /\ storeOk' = TRUE /\ stored' = target.file /\ target' = Closed
       \/ storeActive /\ storeOk' = FALSE /\ target' = Closed /\ UNCHANGED stored
       \/ ~storeActive /\ UNCHANGED <<storeOk, target, stored>>

StoreAborted ==
    /\ ToStore
    /\ uploading' = FALSE /\ storeActive' = FALSE
    /\ IF storeActive THEN Discard ELSE UNCHANGED target
    /\ UNCHANGED <<storeOk, stored>>

handleStoreDone ==
    /\ ToStore
    /\ Reply(IF storeOk THEN "saved" ELSE "rejected")
    /\ UNCHANGED <<uploading, storeFlags, store>>

\* The server's callbacks, in their order.
Start ==
    /\ part = "start" /\ part' = "data"
    /\ UploadStart \/ StoreStart
    /\ UNCHANGED <<server, left, answer>>

Write ==
    /\ part = "data" /\ left > 0 /\ left' = left - 1
    /\ UploadWrite \/ StoreWrite
    /\ UNCHANGED <<server, part, answer>>

End ==
    /\ part = "data" /\ left = 0 /\ part' = "done"
    /\ UploadEnd \/ StoreEnd
    /\ UNCHANGED <<server, left, answer>>

Disconnect ==
    /\ cur' = Nobody /\ ask' = [ask EXCEPT ![cur] = Silence]
    /\ part' = "none" /\ left' = 0
    /\ UNCHANGED <<idle, backlog, redirected, waited>>

Aborted ==
    /\ part = "data"
    /\ UploadAborted \/ StoreAborted
    /\ Disconnect
    /\ answer' = NoAnswer

Done ==
    /\ part = "done"
    /\ handleUploadDone \/ handleStoreDone
    /\ Disconnect

Upload == Start \/ Write \/ End \/ Done

-----------------------------------------------------------------------------
Next ==
    \/ \E c \in Clients : Open(c) \/ Follow(c) \/ UseSpare(c)
    \/ Loop
    \/ handleReboot
    \/ Upload
    \/ Aborted
    \/ Restart

Spec == Init /\ [][Next]_vars

\* The caller calls loop() in every iteration, or restarts when it has seen
\* updateDone(); a browser that was redirected asks again.
FairSpec ==
    /\ Spec
    /\ WF_vars(Loop \/ handleReboot \/ Upload)
    /\ WF_vars(done /\ Restart)
    /\ \A c \in Clients : WF_vars(Follow(c))

-----------------------------------------------------------------------------
(* Properties.                                                             *)

TypeOK ==
    /\ {uploading, failed, wrongFile, done, storeActive, storeOk} \subseteq BOOLEAN
    /\ cur \in Clients \cup {Nobody} /\ idle \in 0..(Grace + 1)
    /\ backlog \in Seq(Clients) /\ Len(backlog) <= Cardinality(Clients)
    /\ ask \in [Clients -> Requests \cup {Silence}]
    /\ redirected \subseteq Clients
    /\ part \in {"none", "start", "data", "done"} /\ left \in 0..Chunks
    /\ part # "none" => cur # Nobody /\ ask[cur].path \in {"update", "store"}
    /\ {update, target} \subseteq {Closed} \cup [open : {TRUE}, file : Files, len : 0..Chunks]
    /\ {running, boot, stored} \subseteq Files \cup {Factory}
    /\ answer.req \in Requests \cup {Silence}

\* The page that answers an upload says what has become of this upload, not of
\* an earlier one: "Update OK" if and only if the boot slot selects this file,
\* "Falsche Firmware-Datei ... nichts geflasht" for names that do not fit only,
\* "Alte Firmware bleibt aktiv" when it does, "Image gespeichert" when this file
\* is what the store has.
AnswerIsTrue ==
    /\ answer.status = "ok" => boot = answer.req.file /\ boot.named
    /\ answer.status \in {"wrong", "failed"} => boot = running
    /\ answer.req.path = "update" => (answer.status = "wrong" <=> ~answer.req.file.named)
    /\ answer.status = "saved" => stored = answer.req.file

\* Whatever failed before, nothing is left over between two uploads that keeps
\* the next one, or a reboot, from working ("allow a retry without reboot"), and
\* the hooks' target is open exactly as long as _storeActive says.
NothingLeftOpen ==
    /\ storeActive <=> target.open
    /\ part = "none" => ~uploading /\ ~update.open /\ ~target.open

\* Whatever is uploaded, fails or is aborted, the device starts either the old
\* firmware or a whole image that was accepted by its name
\* (WebUpdateService.h: "the boot partition only switches after a complete,
\* checksum-valid transfer").
BootIsVetted == {running, boot} \subseteq {Factory} \cup {f \in Files : f.named /\ f.valid}

\* A request leaves the server only by an answer to it: the patience with silent
\* connections never costs one that has said something (ResponsiveWebServer.h:
\* "closes a connection that has sent nothing").
NothingDropped ==
    [][\A c \in Clients : Has(c) /\ ask'[c] # ask[c] =>
         answer'.req = ask[c] \/ Aborted \/ Restart]_vars

\* Silent connections that were there before do not hold a request up for more
\* than the patience each of them gets and its own iteration (ResponsiveWebServer.h: "every page click
\* could stall 5 s behind such a silent socket").
ServedSoon == \A c \in Clients : waited[c] <= (Cardinality(Clients) - 1) * (Grace + 3)

\* Every browser gets its answer in the end, and one that was redirected gets the
\* page: where it is sent to is not redirected again.
Answered == \A c \in Clients : Has(c) ~> ~Has(c) /\ c \notin redirected

-----------------------------------------------------------------------------
(* Why these hold: the inductive invariant, in named parts.                *)

\* Connections are distinct, and only an open one has a request.
Connected ==
    /\ \A j, k \in DOMAIN backlog : backlog[j] = backlog[k] => j = k
    /\ \A k \in DOMAIN backlog : backlog[k] # cur
    /\ \A c \in Clients : Has(c) => IsOpen(c)

\* What is open is of this upload and as long as what was handed over, and the
\* flags speak of this upload.
OfThisUpload(upload) ==
    upload.open => part = "data" /\ upload.file = File /\ upload.len + left <= Chunks
ThisUpload ==
    /\ part # "none" => answer = NoAnswer
    /\ part # "data" => ~uploading
    /\ OfThisUpload(update) /\ OfThisUpload(target)
    /\ update.open => ask[cur].path = "update" /\ ~failed /\ ~wrongFile
    /\ target.open => ask[cur].path = "store"
    /\ storeActive <=> target.open
    /\ part \in {"data", "done"} /\ ask[cur].path = "update" => (wrongFile <=> ~File.named)
    /\ part \in {"start", "data"} => ~done
    /\ ~done => boot = running
    /\ part = "done" /\ done => ask[cur].path = "update" /\ boot = File
    /\ part \in {"data", "done"} /\ ask[cur].path = "store" /\ storeOk => stored = File
    /\ done => boot.named

\* The iterations that a request at place k of the backlog can still have to
\* wait: one before it is accepted, then its patience and its own iteration, for
\* each connection before it, less what the current one has used up.
Patience == Grace + 3
CurrentPatience == IF cur # Nobody /\ part = "none" THEN Grace + 2 - idle ELSE 0
Ahead(k) == (k - 1) * Patience + CurrentPatience
OnTime ==
    /\ waited \in [Clients -> Nat]
    /\ \A c \in Clients : ~Has(c) \/ c = cur => waited[c] = 0
    /\ \A k \in DOMAIN backlog :
        Has(backlog[k]) =>
            waited[backlog[k]] + Ahead(k) <= (Cardinality(Clients) - 1) * Patience

WebInv == TypeOK /\ Connected /\ ThisUpload /\ BootIsVetted /\ AnswerIsTrue /\ OnTime
=============================================================================
