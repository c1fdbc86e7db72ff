---------------------------- MODULE FragmentLife ----------------------------
(***************************************************************************)
(* What MainFragment may rely on: the life of its instances and of their   *)
(* views as the activity's fragment transactions drive it. Covered by a    *)
(* flow, the fragment loses its view and keeps its activity; it loses the  *)
(* activity only when the activity is destroyed.                           *)
(***************************************************************************)
EXTENDS Naturals

CONSTANT MaxInstance  \* bound on the instances ever created

ASSUME MaxInstanceAssumption == MaxInstance \in Nat

VARIABLES
  instance,  \* the MainFragment created last, 0 before the first
  attached,  \* it has an activity, so that its getContext() is not null
  view       \* it has a view, which is what the window shows

lifeVars == <<instance, attached, view>>

LifeTypeOK ==
  /\ instance \in 0 .. MaxInstance
  /\ attached \in BOOLEAN
  /\ view \in BOOLEAN

LifeInit == instance = 0 /\ attached = FALSE /\ view = FALSE

\* A new activity adds a new MainFragment.
Added ==
  /\ ~attached
  /\ instance < MaxInstance
  /\ instance' = instance + 1
  /\ attached' = TRUE
  /\ view' = TRUE

\* The activity is destroyed and created again, with its fragments as they were.
Restored ==
  /\ attached
  /\ instance < MaxInstance
  /\ instance' = instance + 1
  /\ UNCHANGED <<attached, view>>

\* A flow takes its place in main_content, or leaves it.
Covered == attached /\ view /\ view' = FALSE /\ UNCHANGED <<instance, attached>>
Uncovered == attached /\ ~view /\ view' = TRUE /\ UNCHANGED <<instance, attached>>

\* The activity is destroyed for good.
Detached ==
  /\ attached
  /\ attached' = FALSE
  /\ view' = FALSE
  /\ UNCHANGED instance

LifeNext == Added \/ Restored \/ Covered \/ Uncovered \/ Detached

(***************************************************************************)
(* The life the fragment is promised: an instance never comes back, and a  *)
(* view belongs to the instance that the activity has now.                 *)
(***************************************************************************)
LifeSpec == LifeInit /\ [][LifeNext]_lifeVars
=============================================================================
