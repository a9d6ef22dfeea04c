------------------------------ MODULE Application ------------------------------
(* The application in front of the engine: the server's admission and limiter,  *)
(* the registry of workspaces and the cache of their sessions, and the          *)
(* assistant.  They share no state: a behaviour is about one of them (Focus).   *)
EXTENDS Integers, Focus

CONSTANTS
  Thread, Address, Environment, Token, NoToken,             \* Server
  Limit, Window, MAX_KEYS, MaxClock, MaxGrants,
  Maker, Name, MAX_CACHED_WORKSPACES,                       \* Workspaces
  Payload, Prose, MAX_SANE, ModelTool, Mode, Client,        \* Assistant
  CallCost, Ceiling, MaxUses, MAX_TURNS

\* A limit, a window, a bound on the clock, a cap and a number of turns; costs are in millionths of a
\* dollar, to which a call's cost is rounded.
ASSUME LimitAssumption == Limit \in Nat /\ Window \in Nat /\ MaxClock \in Nat
ASSUME CapAssumption   == MAX_CACHED_WORKSPACES \in Nat
ASSUME CostAssumption  == CallCost \subseteq Nat /\ Ceiling \in Nat /\ MAX_TURNS \in Nat \ {0}

\* Amounts are magnitudes in tenths of a cent.
ASSUME TextAssumption ==
  /\ \A payload \in Payload : payload.amounts \subseteq Nat
  /\ \A text \in Prose : text.amounts \subseteq Nat /\ text.spelled \subseteq Nat
  /\ MAX_SANE \in Nat

VARIABLES
  ai, config, hits, clock, served, last, granted,
  file, maker, factories, excused

limiter == <<config, hits, clock, served, last, granted>>
spaces  == <<file, maker, factories>>
applicationVars == <<focus, ai, limiter, spaces, excused>>

LimiterOff == /\ config = Null /\ hits = Null /\ clock = Null
              /\ served = Null /\ last = Null /\ granted = Null
SpacesOff  == file = Null /\ maker = Null /\ factories = Null

S == INSTANCE Server
W == INSTANCE Workspaces
A == INSTANCE Assistant

--------------------------------------------------------------------------------
AssistantInit == focus = "assistant" /\ A!AssistantInit
                   /\ LimiterOff /\ SpacesOff /\ excused = Null
ServerInit    == focus = "server" /\ S!ServerInit /\ ai = Null /\ SpacesOff
WorkspaceInit == focus = "workspaces" /\ W!WorkspacesInit /\ ai = Null /\ LimiterOff

ApplicationInit == AssistantInit \/ ServerInit \/ WorkspaceInit

AssistantStep == focus = "assistant" /\ A!AssistantNext
                   /\ UNCHANGED <<focus, limiter, spaces, excused>>
ServerStep    == focus = "server" /\ S!ServerNext /\ UNCHANGED <<focus, ai, spaces>>
WorkspaceStep == focus = "workspaces" /\ W!WorkspacesNext
                   /\ UNCHANGED <<focus, ai, limiter>>

ApplicationNext == AssistantStep \/ ServerStep \/ WorkspaceStep

ApplicationSpec == ApplicationInit /\ [][ApplicationNext]_applicationVars

--------------------------------------------------------------------------------
\* ai.loop and ai.grounding: an amount in shipped prose is within a dollar of one a
\* tool returned to the request, a citation a part of one returned or the reverse.
ShippedIsGrounded == focus = "assistant" => A!ShippedIsGrounded

\* ai.cost: a request spends at most one call over its ceiling, and one that
\* spent more ships no result.
SpendIsBounded == focus = "assistant" => A!SpendIsBounded

\* hardening.RateLimiter: no address gets more than the limit in any window, unless
\* it was evicted or a thread decided under an older clock.
LimitHolds == focus = "server" => S!LimitHolds

\* auth and hardening: with any signing source named, a gated request is let
\* through only with a good token every source accepts, under its subject.
AdmittedIsVerified == focus = "server" => S!AdmittedIsVerified

\* workspaces.create and api.app._factory_for: no husk is left behind and a created
\* workspace is whole, unless calls overlapped, a request opened it on the way, or
\* the caller died; the cache is bounded, holds a name once, and serves whole files.
WorkspacesStayWhole == focus = "workspaces" => W!NoHusk /\ W!CacheServesWhole
================================================================================
