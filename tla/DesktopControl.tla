----------------------------- MODULE DesktopControl -----------------------------
(***************************************************************************)
(* Computer use: the permissions of the user (desktop-control-bridge.ts),   *)
(* the helper process that holds the grant of the Wayland portal            *)
(* (desktop-control-wayland-portal.ts), and the MCP server that offers the  *)
(* permitted tools through the daemon (desktop-control-mcp-server.ts).      *)
(*                                                                         *)
(* Mouse and keyboard are one permission, "input": both need the grant, and *)
(* it is given up when both are off.  The clipboard is like the screen.     *)
(* A call is the sequence of the requests it still has to make; requests to *)
(* the helper are answered, refused, timed out, or rejected with the helper.*)
(***************************************************************************)
EXTENDS Naturals, SequencesExt, FiniteSets

CONSTANTS Agents,      \* callers of the tools
          MaxHelpers,  \* bound: helper processes alive
          MaxCalls,    \* bound: updates and tool calls begun
          MaxTicks,    \* bound: reconciliations begun
          MaxStarts,   \* bound: launches of the Desktop
          MaxFaults    \* refusals, timeouts, exiting processes, failing requests

Caps == {"screen", "input"}
Settings == {"s1", "s2"}   \* the settings screen, and the same one opened anew
Callers == Settings \cup Agents
NoCall == [kind |-> "none", todo |-> <<>>, wait |-> 0, prev |-> {}, old |-> 0, point |-> 0,
           keys |-> <<>>]
NoExt == [port |-> 0, cred |-> 0, enabled |-> FALSE, tools |-> {}]

\* Two displays side by side, their images, and the portal's streams of them.
Displays == {1, 2}
Origin(d) == IF d = 1 THEN 0 ELSE 5
Width(d) == IF d = 1 THEN 5 ELSE 3
Image(d) == IF d = 1 THEN 3 ELSE 2

VARIABLES
  focus,     \* which half of the component this behaviour exercises
  backend,   \* something that can move the mouse and type is there
  perms,     \* the bridge's permissions
  asked,     \* what the user asked for last
  file,      \* the stored preferences
  calls,
  child,     \* the portal's helper, or 0
  helpers,   \* helper processes alive, each with or without a session
  closes,    \* helpers that ended and whose close event is to come
  probed,    \* the probe is cached
  token,     \* the restore token: of the portal, and stored
  shot, seen,\* the bridge's last screenshot; the last one each agent was given
  hits,      \* clicks: agent, display it saw, display the point is on
  held,      \* keys that are down
  server,    \* the MCP server: port, credential, and whether the daemon has an older one for it
  ext,       \* the daemon's registration of it
  rec,       \* the reconciliation under way, and how the last one ended
  begun, ticks, starts, faults,
  overlap,   \* what has been under way beside an update: "update", "input"
  dropped,   \* a helper was lost track of
  missed     \* what was not stored, until it is: a session's token, "session", the
             \* deletion of the stored one, "delete", the preferences, "save"

control == <<perms, asked, file, calls, child, helpers, closes, probed, token,
             shot, seen, hits, held, begun, overlap, dropped, missed>>
gateway == <<server, ext, rec, ticks, starts>>
vars == <<focus, backend, control, gateway, faults>>

Busy(c) == calls[c].todo # <<>>
At(c, step) == Busy(c) /\ Head(calls[c].todo) = step
Fault == faults < MaxFaults /\ faults' = faults + 1
Alive(h) == \E p \in helpers : p.id = h

-----------------------------------------------------------------------------
(* The helper of the portal. *)

\* A call goes on after its request has failed.  A failing probe is no error:
\* another backend is tried.  shutdown is best effort; the helper is killed.
Failed(call) ==
  LET step == Head(call.todo) IN
  CASE step = "shutdown" -> [call EXCEPT !.wait = 0, !.todo = <<"kill">> \o Tail(@)]
    [] step = "probe" /\ call.kind = "update" -> [call EXCEPT !.wait = 0, !.todo = <<"saved">>]
    [] step \in {"session", "forget"} /\ call.kind = "update" ->
         [call EXCEPT !.wait = 0, !.todo = <<"revert">>]
    [] OTHER -> NoCall

\* resetChild: whatever is pending is rejected.
Reset(cs) == [c \in Callers |-> IF cs[c].wait # 0 THEN Failed(cs[c]) ELSE cs[c]]

\* request: the helper is started if there is none that runs.
FreshHelper == CHOOSE i \in 1..(MaxHelpers + 1) : ~Alive(i) /\ i \notin closes
Ask(c, h) == calls' = [calls EXCEPT ![c].wait = h]
EnsureChild(c) ==
  IF Alive(child)
  THEN /\ Ask(c, child)
       /\ UNCHANGED <<child, helpers>>
  ELSE /\ Cardinality(helpers) + Cardinality(closes) < MaxHelpers
       /\ helpers' = helpers \cup {[id |-> FreshHelper, session |-> FALSE]}
       /\ child' = FreshHelper
       /\ Ask(c, FreshHelper)
After(call) ==
  IF Len(call.todo) = 1 THEN NoCall ELSE [call EXCEPT !.todo = Tail(@), !.wait = 0]
Go(c) == calls' = [calls EXCEPT ![c] = After(@)]
Request(c) ==
  /\ calls[c].wait = 0
  /\ \/ /\ At(c, "probe") /\ probed
        /\ Go(c)
        /\ UNCHANGED <<child, helpers>>
     \/ /\ (At(c, "probe") /\ ~probed) \/ At(c, "session") \/ At(c, "inject") \/ At(c, "press")
        /\ EnsureChild(c)
     \/ /\ At(c, "shutdown") /\ child = 0
        /\ Go(c)
        /\ UNCHANGED <<child, helpers>>
     \/ /\ At(c, "shutdown") /\ child # 0
        /\ IF Alive(child)
           THEN /\ calls' = [calls EXCEPT ![c].wait = child, ![c].old = child]
                /\ UNCHANGED <<child, helpers>>
           ELSE /\ Cardinality(helpers) + Cardinality(closes) < MaxHelpers
                /\ helpers' = helpers \cup {[id |-> FreshHelper, session |-> FALSE]}
                /\ child' = FreshHelper
                /\ calls' = [calls EXCEPT ![c].wait = FreshHelper, ![c].old = child]
  /\ UNCHANGED <<focus, backend, perms, asked, file, closes, probed, token, shot, seen, hits, held, begun,
                 overlap, dropped, missed, gateway, faults>>

\* The display the point of a click is on.  The image's point is scaled to the
\* bounds; with the portal, to the stream that starts where the display does.
MapScreenshotPoint(x, d) ==
  LET right == Origin(d) + Width(d) - 1
      p == Origin(d) + (x * Width(d)) \div Image(d)
  IN IF p > right THEN right ELSE p
DisplayAt(p) == {d \in Displays : p >= Origin(d) /\ p < Origin(d) + Width(d)}

\* parseKeyChord: modifiers, each once, and exactly one key.
Modifiers == {"ctrl", "shift"}
Chords == {<<"shift", "ctrl", "shift", "a">>, <<"a", "ctrl", "b">>}
ParseKeyChord(parts) ==
  [modifiers |-> FoldLeft(LAMBDA ms, p : IF p \in Modifiers /\ ~Contains(ms, p)
                                         THEN Append(ms, p) ELSE ms, <<>>, parts),
   keys |-> SelectSeq(parts, LAMBDA p : p \notin Modifiers)]
ValidChord(parts) == Len(ParseKeyChord(parts).keys) = 1

\* portalKeysymSequence: the modifiers go down and, after the key, up again.
KeysymSequence(parts) ==
  LET chord == ParseKeyChord(parts)
      All(seq, down) == [i \in DOMAIN seq |-> [key |-> seq[i], down |-> down]]
  IN All(chord.modifiers \o chord.keys, TRUE) \o All(Reverse(chord.modifiers \o chord.keys), FALSE)

\* ensureSession: a restore token that is new is stored, one that is gone deleted.
\* The portal has it before the secret store does, which may refuse.
SessionToken(c, t) ==
  \/ /\ t = token.mem
     /\ Go(c)
     /\ UNCHANGED <<token, missed, faults>>
  \/ /\ t \/ token.mem
     /\ token' = [mem |-> t, stored |-> t]
     /\ missed' = missed \ {"session", "delete"}
     /\ Go(c)
     /\ UNCHANGED faults
  \/ /\ (t \/ token.mem) /\ Fault
     /\ token' = [token EXCEPT !.mem = t]
     /\ missed' = missed \cup {"session"} \cup (IF t THEN {} ELSE {"delete"})
     /\ calls' = [calls EXCEPT ![c] = Failed(@)]

\* handleLine: an answer of the helper that was asked.
Answer(c) ==
  LET h == calls[c].wait IN
  /\ h # 0 /\ Alive(h)
  /\ \/ /\ At(c, "probe")
        /\ probed' = TRUE
        /\ Go(c)
        /\ UNCHANGED <<helpers, closes, token, missed, hits, held, faults>>
     \/ /\ At(c, "session")
        /\ helpers' = {IF p.id = h THEN [p EXCEPT !.session = TRUE] ELSE p : p \in helpers}
        /\ \E t \in BOOLEAN : SessionToken(c, t)
        /\ UNCHANGED <<closes, probed, hits, held>>
     \/ /\ At(c, "inject")
        /\ hits' = hits \cup {[agent |-> c, saw |-> seen[c], on |-> DisplayAt(calls[c].point)]}
        /\ Go(c)
        /\ UNCHANGED <<helpers, closes, probed, token, missed, held, faults>>
     \/ /\ At(c, "press")
        /\ held' = FoldLeft(LAMBDA down, e : IF e.down THEN down \cup {e.key} ELSE down \ {e.key},
                            held, KeysymSequence(calls[c].keys))
        /\ Go(c)
        /\ UNCHANGED <<helpers, closes, probed, token, missed, hits, faults>>
     \/ /\ At(c, "shutdown")
        /\ helpers' = {p \in helpers : p.id # h}
        /\ closes' = closes \cup {h}
        /\ calls' = [calls EXCEPT ![c].wait = 0, ![c].todo = <<"kill">> \o Tail(@)]
        /\ UNCHANGED <<probed, token, missed, hits, held, faults>>
  /\ UNCHANGED <<focus, backend, perms, asked, file, child, shot, seen, begun, overlap, dropped, gateway>>

\* The request is refused (no consent) or times out; after a timeout the helper
\* may still get the session, and its answer is then ignored.
Refused(c) ==
  /\ calls[c].wait # 0 /\ Fault
  /\ calls' = [calls EXCEPT ![c] = Failed(@)]
  /\ \/ UNCHANGED <<helpers, missed>>
     \/ /\ At(c, "session")
        /\ helpers' = {IF p.id = calls[c].wait THEN [p EXCEPT !.session = TRUE] ELSE p : p \in helpers}
        /\ missed' = missed \cup {"session"}
  /\ UNCHANGED <<focus, backend, perms, asked, file, child, closes, probed, token, shot, seen,
                 hits, held, begun, overlap, dropped, gateway>>

\* stop, after the shutdown: if its helper is still the child, it is killed and
\* everything pending rejected.
Kill(c) ==
  LET old == calls[c].old
      cs == [calls EXCEPT ![c] = After(@)] IN
  /\ At(c, "kill")
  /\ IF child = old
     THEN /\ helpers' = {p \in helpers : p.id # old}
          /\ closes' = IF Alive(old) THEN closes \cup {old} ELSE closes
          /\ child' = 0 /\ probed' = FALSE
          /\ calls' = Reset(cs)
     ELSE /\ calls' = cs
          /\ UNCHANGED <<helpers, closes, child, probed>>
  /\ UNCHANGED <<focus, backend, perms, asked, file, token, shot, seen, hits, held, begun, overlap, dropped, missed,
                 gateway, faults>>

HelperExits ==
  /\ Fault
  /\ \E p \in helpers :
       /\ helpers' = helpers \ {p}
       /\ closes' = closes \cup {p.id}
  /\ UNCHANGED <<focus, backend, perms, asked, file, calls, child, probed, token, shot, seen, hits, held, begun,
                 overlap, dropped, missed, gateway>>

\* The close event of a helper resets the portal, whichever helper it has now.
Close ==
  /\ \E h \in closes : closes' = closes \ {h}
  /\ child' = 0 /\ probed' = FALSE
  /\ calls' = Reset(calls)
  /\ dropped' = (dropped \/ Alive(child))
  /\ UNCHANGED <<focus, backend, perms, asked, file, helpers, token, shot, seen, hits, held, begun, overlap,
                 missed, gateway, faults>>

-----------------------------------------------------------------------------
(* The bridge. *)

\* An update beside another one, or beside a tool that uses the helper.
Beside(c, call) ==
  LET kinds == {calls[o].kind : o \in {x \in Callers \ {c} : Busy(x)}} IN
  IF call.kind = "update" THEN kinds \cap {"update", "input"}
  ELSE IF call.kind = "input" THEN IF "update" \in kinds THEN {"input"} ELSE {}
  ELSE {}
Begin(c, call) ==
  /\ focus = "portal" /\ ~Busy(c) /\ begun < MaxCalls
  /\ begun' = begun + 1
  /\ calls' = [calls EXCEPT ![c] = call]
  /\ overlap' = overlap \cup Beside(c, call)

\* A bug: the grant is kept for the next time input is allowed.
ForgetKept == <<"shutdown">>

\* updatePermissions: the permissions change at once; the portal's grant is
\* asked for when input is newly on, given up when it is off.
Forget == <<"shutdown", "forget">>
Steps(prev, next) ==
  (IF "input" \in next \ prev THEN <<"probe", "session">> ELSE <<>>)
    \o (IF "input" \in prev \ next THEN Forget ELSE <<>>)
    \o (IF "input" \in next THEN <<"probe", "saved">> ELSE <<"saved">>)
UpdatePermissions(s) ==
  /\ \E next \in SUBSET Caps \ {perms} :
       /\ Begin(s, [NoCall EXCEPT !.kind = "update", !.todo = Steps(perms, next), !.prev = perms])
       /\ perms' = next /\ asked' = next
  /\ UNCHANGED <<focus, backend, file, child, helpers, closes, probed, token, shot, seen, hits, held, dropped, missed,
                 gateway, faults>>
\* The portal forgets its token at once, and only then is the stored one deleted.
ForgetRestoreToken(s) ==
  /\ At(s, "forget")
  /\ token' \in {[mem |-> FALSE, stored |-> token.stored], [mem |-> FALSE, stored |-> FALSE]}
  /\ \/ /\ ~token.mem /\ token' = token
        /\ missed' = missed \ {"session"}
        /\ Go(s)
        /\ UNCHANGED faults
     \/ /\ token.mem /\ ~token'.stored
        /\ missed' = missed \ {"session", "delete"}
        /\ Go(s)
        /\ UNCHANGED faults
     \/ /\ token.mem /\ token'.stored = token.stored /\ Fault
        /\ missed' = (missed \ {"session"}) \cup {"delete"}
        /\ calls' = [calls EXCEPT ![s] = Failed(@)]
  /\ UNCHANGED <<focus, backend, perms, asked, file, child, helpers, closes, probed, shot, seen, hits, held,
                 begun, overlap, dropped, gateway>>

\* The update failed: the permissions before it are put back.
RevertTo(prev) == prev
Revert(s) ==
  /\ At(s, "revert")
  /\ perms' = RevertTo(calls[s].prev)
  /\ asked' = IF "update" \in overlap THEN asked ELSE calls[s].prev
  /\ calls' = [calls EXCEPT ![s] = NoCall]
  /\ UNCHANGED <<focus, backend, file, child, helpers, closes, probed, token, shot, seen, hits, held, begun,
                 overlap, dropped, missed, gateway, faults>>

\* desktopControlPermissionsChanged: what the bridge has by then is stored, or not.
Saved(s) ==
  /\ At(s, "saved")
  /\ \/ /\ file' = perms /\ missed' = missed \ {"save"}
        /\ UNCHANGED faults
     \/ /\ Fault /\ missed' = missed \cup {"save"}
        /\ UNCHANGED file
  /\ calls' = [calls EXCEPT ![s] = NoCall]
  /\ UNCHANGED <<focus, backend, perms, asked, child, helpers, closes, probed, token, shot, seen, hits, held,
                 begun, overlap, dropped, gateway>>

\* A screenshot: the geometry is kept when the capture is done.
Screenshot(a) ==
  \/ /\ "screen" \in perms
     /\ \E d \in Displays : Begin(a, [NoCall EXCEPT !.kind = "shot", !.todo = <<"capture">>, !.point = d])
     /\ UNCHANGED <<shot, seen>>
  \/ /\ At(a, "capture")
     /\ shot' = calls[a].point
     /\ seen' = [seen EXCEPT ![a] = calls[a].point]
     /\ Go(a)
     /\ UNCHANGED <<begun, overlap>>
CaptureScreenshot(a) ==
  /\ Screenshot(a)
  /\ UNCHANGED <<focus, backend, perms, asked, file, child, helpers, closes, probed, token, hits, held, dropped, missed,
                 gateway, faults>>

\* A click at a point of the last screenshot: permission and geometry are read
\* when it begins.
Click(a) ==
  /\ "input" \in perms /\ shot # 0 /\ seen[a] # 0
  /\ \E x \in 0..(Image(shot) - 1) :
       Begin(a, [NoCall EXCEPT !.kind = "input", !.todo = <<"probe", "session", "inject">>,
                                 !.point = MapScreenshotPoint(x, shot)])
  /\ UNCHANGED <<focus, backend, perms, asked, file, child, helpers, closes, probed, token, shot, seen,
                 hits, held, dropped, missed, gateway, faults>>

\* A key press: a chord that cannot be parsed is an error once there is a session.
Press(a) ==
  /\ "input" \in perms
  /\ \E parts \in Chords :
       Begin(a, [NoCall EXCEPT !.kind = "input", !.keys = parts,
                               !.todo = <<"probe", "session">> \o
                                        (IF ValidChord(parts) THEN <<"press">> ELSE <<>>)])
  /\ UNCHANGED <<focus, backend, perms, asked, file, child, helpers, closes, probed, token, shot, seen,
                 hits, held, dropped, missed, gateway, faults>>

-----------------------------------------------------------------------------
(* The gateway: the daemon's registration is brought into line at a launch, *)
(* after an update and every 15 seconds.  One reconciliation runs at a time.*)

\* Tool definitions: what a permission offers, the input only with a backend.
Offered(p) == IF backend THEN p ELSE p \ {"input"}
RecDone(ok) == [at |-> "idle", saw |-> rec.saw, todo |-> {}, ok |-> ok]
MatchesRegistration == ext # NoExt /\ ext.port = server.port
GatewayStep == UNCHANGED <<focus, backend, control, server, ticks, starts>>

\* The user changes permissions while the gateway is looked at (no portal).
ChangePermissions ==
  /\ focus = "gateway" /\ begun < MaxCalls
  /\ begun' = begun + 1
  /\ \E next \in SUBSET Caps \ {perms} : perms' = next /\ asked' = next /\ file' = next
  /\ UNCHANGED <<focus, backend, calls, child, helpers, closes, probed, token, shot, seen, hits, held, overlap,
                 dropped, missed, gateway, faults>>
Reconcile ==
  /\ focus = "gateway" /\ server.up /\ rec.at = "idle" /\ ticks < MaxTicks
  /\ ticks' = ticks + 1
  /\ rec' = [at |-> "register", saw |-> Offered(perms), todo |-> {}, ok |-> FALSE]
  /\ UNCHANGED <<focus, backend, control, server, ext, starts, faults>>

\* One that is not ours as we are now is removed and installed again.
Register ==
  /\ rec.at = "register"
  /\ ext' = IF MatchesRegistration THEN ext ELSE [NoExt EXCEPT !.port = server.port]
  /\ rec' = [rec EXCEPT !.at = "enable"]
  /\ GatewayStep /\ UNCHANGED faults

\* Nothing is permitted: it is disabled, and the daemon forgets the credential.
NotOperational == [ext EXCEPT !.enabled = FALSE, !.cred = IF ext.enabled THEN 0 ELSE @]

\* Else it gets the credential, if the daemon has none, and is enabled.
Credential == IF ext.cred = 0 THEN server.cred ELSE ext.cred
Enable ==
  /\ rec.at = "enable"
  /\ IF rec.saw = {}
     THEN /\ ext' = NotOperational
          /\ rec' = RecDone(TRUE)
     ELSE /\ ext' = [ext EXCEPT !.cred = Credential, !.enabled = TRUE]
          /\ rec' = [rec EXCEPT !.at = "list"]
  /\ GatewayStep /\ UNCHANGED faults

\* The tools are listed, the permissions read again, and the policies set one
\* by one.
ListTools ==
  /\ rec.at = "list"
  /\ rec' = [rec EXCEPT !.at = "policy", !.saw = Offered(perms), !.todo = Caps]
  /\ ext' = [ext EXCEPT !.tools = IF @ = {} THEN Caps ELSE @]
  /\ GatewayStep /\ UNCHANGED faults
UpdateToolPolicy ==
  /\ rec.at = "policy"
  /\ \E t \in rec.todo :
       /\ ext' = [ext EXCEPT !.tools = IF t \in rec.saw THEN @ \cup {t} ELSE @ \ {t}]
       /\ rec' = IF rec.todo = {t} THEN RecDone(TRUE) ELSE [rec EXCEPT !.todo = @ \ {t}]
  /\ GatewayStep /\ UNCHANGED faults

\* A request to the daemon fails; the next reconciliation tries again.
GatewayFails ==
  /\ rec.at # "idle" /\ Fault
  /\ rec' = RecDone(FALSE)
  /\ GatewayStep /\ UNCHANGED ext

\* The daemon is started anew: credentials are in its memory only.
DaemonRestarts ==
  /\ focus = "gateway" /\ Fault /\ rec.at = "idle"
  /\ ext' = [ext EXCEPT !.cred = 0]
  /\ rec' = [rec EXCEPT !.ok = FALSE]
  /\ GatewayStep

\* The Desktop quits (the registration is disabled) or crashes, and starts
\* again with another credential, on the port the system gives it: most likely
\* another one, but it may be the one before.
Restart ==
  /\ focus = "gateway" /\ starts < MaxStarts
  /\ starts' = starts + 1
  /\ \/ /\ Fault
        /\ UNCHANGED ext
     \/ /\ rec.at = "idle"
        /\ ext' = IF MatchesRegistration THEN NotOperational ELSE ext
        /\ UNCHANGED faults
  /\ \E port \in {server.port, server.port + 1} :
       server' = [up |-> TRUE, port |-> port, cred |-> server.cred + 1,
                  again |-> port = ext'.port /\ ext'.cred # 0]
  /\ perms' = file
  /\ rec' = [at |-> "idle", saw |-> {}, todo |-> {}, ok |-> FALSE]
  /\ UNCHANGED <<focus, backend, asked, file, calls, child, helpers, closes, probed, token, shot, seen,
                 hits, held, begun, overlap, dropped, missed, ticks>>

-----------------------------------------------------------------------------
Init ==
  /\ focus \in {"portal", "gateway"}
  /\ backend \in BOOLEAN /\ (focus = "portal" => backend)
  /\ perms \in SUBSET Caps
  /\ asked = perms /\ file = perms
  /\ calls = [c \in Callers |-> NoCall]
  /\ child = 0 /\ helpers = {} /\ closes = {} /\ probed = FALSE
  /\ \E t \in BOOLEAN : ("input" \notin perms => ~t) /\ token = [mem |-> t, stored |-> t]
  /\ shot = 0 /\ seen = [c \in Callers |-> 0] /\ hits = {} /\ held = {}
  /\ server = [up |-> TRUE, port |-> 1, cred |-> 1, again |-> FALSE]
  /\ ext = NoExt
  /\ rec = [at |-> "idle", saw |-> {}, todo |-> {}, ok |-> FALSE]
  /\ begun = 0 /\ ticks = 0 /\ starts = 1 /\ faults = 0
  /\ overlap = {} /\ dropped = FALSE /\ missed = {}

Next ==
  \/ \E c \in Callers : Request(c) \/ Answer(c) \/ Refused(c)
  \/ \E s \in Settings : \/ UpdatePermissions(s) \/ Kill(s) \/ ForgetRestoreToken(s)
                         \/ Revert(s) \/ Saved(s)
  \/ \E a \in Agents : CaptureScreenshot(a) \/ Click(a) \/ Press(a)
  \/ HelperExits \/ Close
  \/ ChangePermissions \/ Reconcile \/ Register \/ Enable \/ ListTools \/ UpdateToolPolicy
  \/ GatewayFails \/ DaemonRestarts \/ Restart

Spec == Init /\ [][Next]_vars

-----------------------------------------------------------------------------
Rest == \A c \in Callers : ~Busy(c)

\* At rest without the permission for input no grant is left: no restore token in
\* the portal; none stored, unless the store refused to delete it; and no helper
\* with a session, unless a late close event made the portal lose its helper. Left
\* out: updates beside another one or beside a tool that uses the helper, and an
\* update that failed although the session it had asked for was given.
GrantFollowsPermission ==
  focus = "portal" /\ Rest /\ overlap = {} /\ "session" \notin missed /\ "input" \notin perms =>
    /\ ~token.mem
    /\ token.stored => "delete" \in missed
    /\ ~dropped => \A p \in helpers : ~p.session

\* At rest the permissions are the ones the user asked for last, or, after an
\* update that failed, the ones before it - also if tools were called meanwhile;
\* and a launch finds them again, unless the last attempt to write them failed.
ChoiceIsKept ==
  focus = "portal" /\ Rest /\ "update" \notin overlap =>
    /\ perms = asked
    /\ "save" \notin missed => file = perms

\* An agent's click is on the display of the screenshot it was given, if it is the
\* only one, whatever the user changes meanwhile; and no key press leaves a key down.
InputIsExact ==
  /\ Cardinality(Agents) = 1 => \A h \in hits : h.on = {h.saw}
  /\ held = {}

\* A reconciliation that ended well while the permissions stayed as it read
\* them: the daemon offers the permitted tools that work and no other, at this server's
\* port and with its credential, unless this launch got the port of one that
\* crashed while the daemon still has that one's credential.
GatewayFollows ==
  rec.at = "idle" /\ rec.ok /\ rec.saw = Offered(perms) =>
    /\ (IF ext.enabled THEN ext.tools ELSE {}) = Offered(perms)
    /\ ext.enabled => ext.port = server.port /\ (ext.cred = server.cred \/ server.again)

\* Agents control the desktop within what the user chose: the portal grant, the
\* stored choice, the injected input and the gateway all follow it.
ControlFollowsChoice == GrantFollowsPermission /\ ChoiceIsKept /\ InputIsExact /\ GatewayFollows
================================================================================
