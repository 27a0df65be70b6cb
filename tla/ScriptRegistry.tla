---------------------------- MODULE ScriptRegistry ----------------------------
(***************************************************************************)
(* What the administrators of a server are promised of its scripts: one    *)
(* script for a name, which only its administrators change or remove, and  *)
(* nothing removed is lost. A crash may lose the script being changed.     *)
(***************************************************************************)
EXTENDS Naturals

CONSTANTS
    Names,       \* the names of scripts
    Users,       \* the users of the server
    Bodies,      \* what a script is, its name aside
    NoScript,    \* in place of a body: there is no script of that name
    Edits(_, _)  \* a user may edit a script of that body

VARIABLES
    registry,  \* from names to bodies
    bin,       \* the bodies of removed scripts
    crashes    \* how often the server was stopped

registryVars == <<registry, bin, crashes>>

RegistryInit ==
    /\ registry \in [Names -> Bodies \cup {NoScript}]
    /\ bin = {}
    /\ crashes = 0

Register(n) ==
    /\ registry[n] = NoScript /\ registry'[n] \in Bodies
    /\ registry' = [registry EXCEPT ![n] = registry'[n]]
    /\ UNCHANGED <<bin, crashes>>

(* The script n becomes the script m, a free name or n itself. *)
Change(u, n, m) ==
    /\ registry[n] # NoScript /\ Edits(u, registry[n])
    /\ m # n => registry[m] = NoScript
    /\ registry'[m] \in Bodies
    /\ registry' = [registry EXCEPT ![n] = NoScript, ![m] = registry'[m]]
    /\ UNCHANGED <<bin, crashes>>

Remove(u, n) ==
    /\ registry[n] # NoScript /\ Edits(u, registry[n])
    /\ registry' = [registry EXCEPT ![n] = NoScript]
    /\ bin' = bin \cup {registry[n]}
    /\ UNCHANGED crashes

(* A script hidden by its administrator leaves the registry for good. *)
Hide(u, n) ==
    /\ registry[n] # NoScript /\ Edits(u, registry[n])
    /\ registry' = [registry EXCEPT ![n] = NoScript]
    /\ UNCHANGED <<bin, crashes>>

(* The server stops, perhaps in the middle of a change of n. *)
Crash(n) ==
    /\ registry' \in {registry, [registry EXCEPT ![n] = NoScript]}
    /\ crashes' = crashes + 1
    /\ UNCHANGED bin

RegistryNext ==
    \E n \in Names :
        \/ Crash(n) \/ Register(n)
        \/ \E u \in Users : Remove(u, n) \/ Hide(u, n)
        \/ \E u \in Users, m \in Names : Change(u, n, m)

RegistrySpec == RegistryInit /\ [][RegistryNext]_registryVars
=============================================================================
