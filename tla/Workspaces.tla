------------------------------- MODULE Workspaces ------------------------------
(* The workspace registry and the application's cache of session factories.     *)
(* A workspace is one SQLite file, made by a migration that runs in a process   *)
(* of its own; requests may be routed at the file while it is being made.       *)
(*                                                                              *)
(* A migration is external: it opens (and so creates) the file, then ends well  *)
(* or badly - badly whenever it meets another one at work on the same file or   *)
(* for reasons of its own.  Opening a missing file creates an empty one.        *)
EXTENDS Integers, Sequences, FiniteSets, SequencesExt

CONSTANTS
  Maker,                    \* callers of `govcon workspace create`
  Name,                     \* workspace names that pass validation
  MAX_CACHED_WORKSPACES

VARIABLES
  file,       \* Name -> "none", "empty", "partial" (half migrated) or "whole"
  maker,      \* Maker -> the create call in progress, or its outcome
  factories,  \* workspace_factories: names, least recently used first
  excused     \* history: names two calls created at once, that were opened
              \* while being made, or whose maker died

workspaceVars == <<file, maker, factories, excused>>

--------------------------------------------------------------------------------
Call(name, phase) == [name |-> name, phase |-> phase]

Making(name) ==
  {m \in Maker : maker[m].name = name /\ maker[m].phase \in {"checked", "migrating"}}

exists(name) == file[name] # "none"

WorkspacesInit ==
  /\ file = [n \in Name |-> "none"]
  /\ maker \in [Maker -> {Call(n, "idle") : n \in Name}]
  /\ factories = <<>>
  /\ excused = {}

\* create: refused when the file is there.  Another call may pass the same check
\* before either migration has created the file.
CheckPath(m) ==
  LET name == maker[m].name IN
  /\ maker[m].phase = "idle"
  /\ maker' = [maker EXCEPT ![m].phase = IF exists(name) THEN "refused" ELSE "checked"]
  /\ excused' = IF ~ exists(name) /\ Making(name) # {} THEN excused \union {name}
                ELSE excused
  /\ UNCHANGED <<file, factories>>

\* subprocess.run(alembic upgrade head): the file appears with the connection.
StartMigration(m) ==
  LET name == maker[m].name IN
  /\ maker[m].phase = "checked"
  /\ maker' = [maker EXCEPT ![m].phase = "migrating"]
  /\ file' = [file EXCEPT ![name] = IF @ = "whole" THEN @ ELSE "partial"]
  /\ UNCHANGED <<factories, excused>>

\* The migration ended well.
Created(m) ==
  /\ maker[m].phase = "migrating"
  /\ maker' = [maker EXCEPT ![m].phase = "created"]
  /\ file' = [file EXCEPT ![maker[m].name] = "whole"]
  /\ UNCHANGED <<factories, excused>>

\* It ended badly: path.unlink(missing_ok=True), whoever's file that is now.
LeftoverHusk(state) == state
Leftover(state) == "none"

MigrationFails(m) ==
  /\ maker[m].phase = "migrating"
  /\ maker' = [maker EXCEPT ![m].phase = "failed"]
  /\ file' = [file EXCEPT ![maker[m].name] = Leftover(@)]
  /\ UNCHANGED <<factories, excused>>

\* The calling process dies with its migration.
MakerDies(m) ==
  /\ maker[m].phase = "migrating"
  /\ maker' = [maker EXCEPT ![m].phase = "dead"]
  /\ excused' = excused \union {maker[m].name}
  /\ UNCHANGED <<file, factories>>

\* After any outcome the caller may try again.
Retry(m) ==
  /\ maker[m].phase \in {"refused", "created", "failed", "dead"}
  /\ \E n \in Name : maker' = [maker EXCEPT ![m] = Call(n, "idle")]
  /\ UNCHANGED <<file, factories, excused>>

\* _factory_for and the session it opens: a cached factory is used without a
\* look at the file, another is built only for a file that exists (otherwise the
\* answer is 404), and beyond the cap the least recently used is dropped.  The
\* session opens the file.
Capped(names) == IF Len(names) > MAX_CACHED_WORKSPACES THEN Tail(names) ELSE names

Known(name) == \E i \in 1 .. Len(factories) : factories[i] = name
Cached(name) == CHOOSE i \in 1 .. Len(factories) : factories[i] = name

Route(name) ==
  /\ Known(name) \/ exists(name)
  /\ factories' = IF Known(name)
                    THEN Append(RemoveAt(factories, Cached(name)), name)
                    ELSE Capped(Append(factories, name))
  /\ file' = [file EXCEPT ![name] = IF @ = "none" THEN "empty" ELSE @]
  /\ excused' = IF Making(name) # {} THEN excused \union {name} ELSE excused
  /\ UNCHANGED maker

WorkspacesNext ==
  \/ \E m \in Maker :
       CheckPath(m) \/ StartMigration(m) \/ Created(m) \/ MigrationFails(m)
         \/ MakerDies(m) \/ Retry(m)
  \/ \E n \in Name : Route(n)

WorkspacesSpec == WorkspacesInit /\ [][WorkspacesNext]_workspaceVars

--------------------------------------------------------------------------------
\* No husk is left behind: while nobody is making a workspace its file is absent
\* or fully migrated, and the path a call reported as created is a whole one -
\* unless two calls made it at once, a request opened it on the way, or the
\* caller died.
NoHusk ==
  \A n \in Name \ excused :
    /\ Making(n) = {} => file[n] \in {"none", "whole"}
    /\ \A m \in Maker : maker[m] = Call(n, "created") => file[n] = "whole"

\* A factory outlives its file only there: what is cached is served from a whole
\* database, no name is cached twice, and the cap holds.
CacheServesWhole ==
  /\ Len(factories) <= MAX_CACHED_WORKSPACES
  /\ IsInjective(factories)
  /\ \A i \in 1 .. Len(factories) :
       factories[i] \notin excused => file[factories[i]] = "whole"
================================================================================
