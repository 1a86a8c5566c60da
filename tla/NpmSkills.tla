------------------------------ MODULE NpmSkills ------------------------------
(***************************************************************************)
(* The npm Skills preflight of a Codex turn: NpmSkillsManager searches,    *)
(* chooses, installs and imports skills, CodexSkillCache pins what was     *)
(* imported (desktop/src/main/npm-skills-manager.ts, codex-skill-cache.ts).*)
(* PluginHub has the preflight as one step; here it is taken apart.        *)
(*                                                                         *)
(* Every workspace has one home directory for the skills CLI, shared by    *)
(* its turns, in which a skill is a folder of its name and an entry of the *)
(* lock file, whatever source it came from.  The content of a skill is the *)
(* source it was copied from.                                              *)
(***************************************************************************)
EXTENDS Naturals, Sequences, FiniteSets, SequencesExt

CONSTANTS
    Turns,       \* turns being prepared
    Workspaces,
    Queries,     \* what a prompt makes the preflight search for
    Catalog,     \* Catalog[q]: the candidates the CLI lists for q
    MaxActive,   \* MAX_ACTIVE_SKILLS
    MaxPrepared, \* bound: turns prepared
    MaxFaults    \* bound: CLI runs that fail

VARIABLES
    turn,     \* turn[t]: where prepareWorkspaceSkills is
    folder,   \* folder[w][s]: what SKILL.md of skill s was copied from
    lock,     \* lock[w][s]: the source .skill-lock.json names
    cache,    \* CodexSkillCache.skills: key, content and workspaces
    mixed,    \* skills two turns were installing or importing at the same time,
              \* or whose installation was cut off
    prepared, faults

vars == <<turn, folder, lock, cache, mixed, prepared, faults>>

None == "none"
Names == UNION {{c.skill : c \in Catalog[q]} : q \in Queries}
NoTurn == [at |-> "idle", ws |-> None, queries |-> <<>>, rest |-> <<>>,
           relevant |-> FALSE, found |-> {}, todo |-> <<>>, imported |-> <<>>,
           upsert |-> <<>>, known |-> {}]

Init ==
    /\ turn = [t \in Turns |-> NoTurn]
    /\ folder = [w \in Workspaces |-> [s \in Names |-> None]]
    /\ lock = [w \in Workspaces |-> [s \in Names |-> None]]
    /\ cache = {}
    /\ mixed = {}
    /\ prepared = 0 /\ faults = 0

Fault == faults < MaxFaults /\ faults' = faults + 1
Put(t, r) == turn' = [turn EXCEPT ![t] = r]
Candidate(t) == Head(turn[t].todo)

-----------------------------------------------------------------------------
(* The search and the choice.                                              *)

\* buildNpmSkillSearchQueries: a prompt with no task searches all the same.
SearchQueries == {<<q>> : q \in Queries} \cup
                 {s \in Queries \X Queries : s[1] # s[2]}

\* requireWorkspace is past and the queries are made.
Prepare(t) ==
    /\ turn[t].at = "idle" /\ prepared < MaxPrepared
    /\ prepared' = prepared + 1
    /\ \E w \in Workspaces, qs \in SearchQueries, relevant \in BOOLEAN :
          /\ ~relevant => Len(qs) = 1
          /\ Put(t, [NoTurn EXCEPT !.at = "search", !.ws = w, !.queries = qs,
                                   !.rest = qs, !.relevant = relevant])
    /\ UNCHANGED <<folder, lock, cache, mixed, faults>>

\* npmSkillCandidateMatchesPrompt.
MatchesPrompt(c) == c.coding

\* The candidate of a query that most others have installed.
Preferred(s) == CHOOSE c \in s : \A d \in s : d.installs <= c.installs

\* chooseCandidates: one for each query, no name and no source twice.
ChooseCandidates(found, queries) ==
    FoldLeft(LAMBDA chosen, q :
        LET free == {c \in found : /\ c.query = q /\ MatchesPrompt(c)
                                   /\ \A i \in DOMAIN chosen : chosen[i].skill # c.skill}
        IN IF free = {} \/ Len(chosen) >= MaxActive THEN chosen
           ELSE Append(chosen, Preferred(free)), <<>>, queries)

\* skills find: what parseNpmSkillsFindOutput makes of the listing.
Find(t) ==
    /\ turn[t].at = "search" /\ turn[t].rest # <<>>
    /\ LET q == Head(turn[t].rest)
       IN Put(t, [turn[t] EXCEPT !.rest = Tail(@),
             !.found = @ \cup {[source |-> c.source, skill |-> c.skill, query |-> q,
                                installs |-> c.installs, coding |-> c.coding] :
                               c \in Catalog[q]}])
    /\ UNCHANGED <<folder, lock, cache, mixed, prepared, faults>>

Chosen(t) ==
    /\ turn[t].at = "search" /\ turn[t].rest = <<>>
    /\ Put(t, [turn[t] EXCEPT !.at = "next", !.found = {},
          !.todo = IF turn[t].relevant
                   THEN ChooseCandidates(turn[t].found, turn[t].queries) ELSE <<>>])
    /\ UNCHANGED <<folder, lock, cache, mixed, prepared, faults>>

\* The CLI ends with an error: the preparation throws and the turn is not run.
CommandFails(t) ==
    /\ \/ turn[t].at = "search" /\ turn[t].rest # <<>>
       \/ turn[t].at \in {"add", "added"}
    /\ Fault
    /\ mixed' = IF turn[t].at = "added" THEN mixed \cup {Candidate(t).skill} ELSE mixed
    /\ Put(t, NoTurn)
    /\ UNCHANGED <<folder, lock, cache, prepared>>

-----------------------------------------------------------------------------
(* The installation of one candidate after the other.                      *)

LockEntryPresent(t) == lock[turn[t].ws][Candidate(t).skill] # None
LockEntryMatches(t) == lock[turn[t].ws][Candidate(t).skill] = Candidate(t).source

\* Turns of one workspace that install the same name from another source.
Rivals(t) ==
    {d \in Turns \ {t} :
        /\ turn[d].at \in {"add", "added", "verify", "content"}
        /\ turn[d].ws = turn[t].ws
        /\ Candidate(d).skill = Candidate(t).skill
        /\ Candidate(d).source # Candidate(t).source}

\* An installation is left out when lock and content are there.
NextCandidate(t) ==
    /\ turn[t].at = "next" /\ turn[t].todo # <<>>
    /\ mixed' = IF Rivals(t) = {} THEN mixed ELSE mixed \cup {Candidate(t).skill}
    /\ Put(t, [turn[t] EXCEPT !.at =
          IF LockEntryMatches(t) /\ folder[turn[t].ws][Candidate(t).skill] # None
          THEN "verify" ELSE "add"])
    /\ UNCHANGED <<folder, lock, cache, prepared, faults>>

\* skills add copies the skill and then records it.
AddCopies(t) ==
    /\ turn[t].at = "add"
    /\ folder' = [folder EXCEPT ![turn[t].ws][Candidate(t).skill] = Candidate(t).source]
    /\ Put(t, [turn[t] EXCEPT !.at = "added"])
    /\ UNCHANGED <<lock, cache, mixed, prepared, faults>>
AddRecords(t) ==
    /\ turn[t].at = "added"
    /\ lock' = [lock EXCEPT ![turn[t].ws][Candidate(t).skill] = Candidate(t).source]
    /\ Put(t, [turn[t] EXCEPT !.at = "verify"])
    /\ UNCHANGED <<folder, cache, mixed, prepared, faults>>

\* The lock is read again: another source has taken the name, or it has not.
LockVerified(t) ==
    /\ turn[t].at = "verify" /\ LockEntryMatches(t)
    /\ Put(t, [turn[t] EXCEPT !.at = "content"])
    /\ UNCHANGED <<folder, lock, cache, mixed, prepared, faults>>
LockRefused(t) ==
    /\ turn[t].at = "verify" /\ ~LockEntryMatches(t)
    /\ Put(t, NoTurn)
    /\ UNCHANGED <<folder, lock, cache, mixed, prepared, faults>>

\* installedSkillContent, imported under the identity of the candidate.
ContentRead(t) ==
    /\ turn[t].at = "content"
    /\ Put(t, [turn[t] EXCEPT !.at = "next", !.todo = Tail(@),
          !.imported = Append(@, [source |-> Candidate(t).source,
                                  skill |-> Candidate(t).skill,
                                  content |-> folder[turn[t].ws][Candidate(t).skill]])])
    /\ UNCHANGED <<folder, lock, cache, mixed, prepared, faults>>

-----------------------------------------------------------------------------
(* CodexSkillCache.                                                        *)

Key(s) == <<s.source, s.skill>>
Cached(s) == {k \in cache : k.key = Key(s)}

\* upsertNpmSkills: everything is imported, the cache takes it skill by skill.
UpsertBegins(t) ==
    /\ turn[t].at = "next" /\ turn[t].todo = <<>>
    /\ Put(t, [turn[t] EXCEPT !.at = "upsert", !.upsert = turn[t].imported])
    /\ UNCHANGED <<folder, lock, cache, mixed, prepared, faults>>

\* The workspaces that have the skill are looked up, then its content written.
UpsertLooksUp(t) ==
    LET s == Head(turn[t].upsert)
    IN /\ turn[t].at = "upsert" /\ turn[t].upsert # <<>>
       /\ mixed' = IF \E d \in Turns \ {t} : /\ turn[d].at = "write"
                                             /\ Key(Head(turn[d].upsert)) = Key(s)
                   THEN mixed \cup {s.skill} ELSE mixed
       /\ Put(t, [turn[t] EXCEPT !.at = "write", !.known = UNION {k.ws : k \in Cached(s)}])
       /\ UNCHANGED <<folder, lock, cache, prepared, faults>>

\* A skill keeps the workspaces it had.
Merged(known, w) == known \cup {w}

UpsertWrites(t) ==
    LET s == Head(turn[t].upsert)
    IN /\ turn[t].at = "write"
       /\ cache' = (cache \ Cached(s)) \cup
             {[key |-> Key(s), content |-> s.content, ws |-> Merged(turn[t].known, turn[t].ws)]}
       /\ Put(t, [turn[t] EXCEPT !.at = "upsert", !.upsert = Tail(@), !.known = {}])
       /\ UNCHANGED <<folder, lock, mixed, prepared, faults>>

\* The turn has its skills: activation resolves and pins them later.
Prepared(t) ==
    /\ turn[t].at = "upsert" /\ turn[t].upsert = <<>>
    /\ Put(t, [turn[t] EXCEPT !.at = "ready"])
    /\ UNCHANGED <<folder, lock, cache, mixed, prepared, faults>>

\* Its turn is over, another one may be prepared.
TurnEnds(t) ==
    /\ turn[t].at = "ready"
    /\ Put(t, NoTurn)
    /\ UNCHANGED <<folder, lock, cache, mixed, prepared, faults>>

-----------------------------------------------------------------------------
Next ==
    \E t \in Turns :
       \/ Prepare(t) \/ Find(t) \/ Chosen(t) \/ CommandFails(t)
       \/ NextCandidate(t) \/ AddCopies(t) \/ AddRecords(t)
       \/ LockVerified(t) \/ LockRefused(t) \/ ContentRead(t)
       \/ UpsertBegins(t) \/ UpsertLooksUp(t) \/ UpsertWrites(t) \/ Prepared(t) \/ TurnEnds(t)
Spec == Init /\ [][Next]_vars

-----------------------------------------------------------------------------
\* The skills a prepared turn was promised are in the cache for its workspace,
\* with the content of the source they are named after, and no two of them are
\* installed under one name; only skills of one name that two turns installed
\* or imported at the same time, or one whose installation broke off, may differ.
SkillsAreAsChosen ==
    \A t \in Turns : turn[t].at = "ready" =>
       LET promised == turn[t].imported
       IN /\ Len(promised) <= MaxActive
          /\ \A i, j \in DOMAIN promised :
                promised[i].skill = promised[j].skill => i = j
          /\ \A i \in DOMAIN promised : promised[i].skill \notin mixed =>
                \E k \in Cached(promised[i]) :
                   /\ turn[t].ws \in k.ws
                   /\ k.content = promised[i].source
=============================================================================
