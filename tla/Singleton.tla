------------------------------ MODULE Singleton -------------------------------
(***************************************************************************)
(* Singleton<T>::GetInstance (src/common/Singleton.h), behind Tracing,     *)
(* Metrics, Naming and the two Filter classes.  The static shared_ptr is   *)
(* initialized thread-safely, but to null: testing it, allocating the T    *)
(* and assigning it are separate steps, and the assignment destroys the    *)
(* object that was there.                                                  *)
(*                                                                         *)
(* The reset parameter and a null allocator are not used by the callers.   *)
(***************************************************************************)
EXTENDS FiniteSets

CONSTANTS
    Threads,     \* threads that call GetInstance
    Objects,     \* T objects that may be allocated
    Null         \* an empty shared_ptr, no reference

VARIABLES
    instance,    \* the static shared_ptr
    alive,       \* objects that are constructed and not destroyed
    used,        \* objects that were ever allocated
    pc,          \* where each thread is in GetInstance
    fresh,       \* the object each thread has just allocated
    ref          \* the T& GetInstance has returned to each thread

vars == <<instance, alive, used, pc, fresh, ref>>

Init ==
    /\ instance = Null
    /\ alive = {}
    /\ used = {}
    /\ pc = [t \in Threads |-> "idle"]
    /\ fresh = [t \in Threads |-> Null]
    /\ ref = [t \in Threads |-> Null]

(* GetInstance is called.                                                  *)
GetInstance(t) ==
    /\ pc[t] = "idle"
    /\ pc' = [pc EXCEPT ![t] = "test"]
    /\ UNCHANGED <<instance, alive, used, fresh, ref>>

(* if (!instance)                                                          *)
Test(t) ==
    /\ pc[t] = "test"
    /\ pc' = [pc EXCEPT ![t] = IF instance = Null THEN "allocate" ELSE "deref"]
    /\ UNCHANGED <<instance, alive, used, fresh, ref>>

(* _allocator() constructs a T ...                                         *)
Allocate(t, o) ==
    /\ pc[t] = "allocate"
    /\ o \notin used
    /\ used' = used \cup {o}
    /\ alive' = alive \cup {o}
    /\ fresh' = [fresh EXCEPT ![t] = o]
    /\ pc' = [pc EXCEPT ![t] = "assign"]
    /\ UNCHANGED <<instance, ref>>

(* ... or throws, which the caller sees.                                   *)
AllocateThrows(t) ==
    /\ pc[t] = "allocate"
    /\ pc' = [pc EXCEPT ![t] = "idle"]
    /\ UNCHANGED <<instance, alive, used, fresh, ref>>

(* instance = ...: the object that was there loses its only owner.         *)
Assign(t) ==
    /\ pc[t] = "assign"
    /\ alive' = alive \ {instance}
    /\ instance' = fresh[t]
    /\ fresh' = [fresh EXCEPT ![t] = Null]
    /\ pc' = [pc EXCEPT ![t] = "deref"]
    /\ UNCHANGED <<used, ref>>

(* return *instance.get()                                                  *)
Deref(t) ==
    /\ pc[t] = "deref"
    /\ ref' = [ref EXCEPT ![t] = instance]
    /\ pc' = [pc EXCEPT ![t] = "idle"]
    /\ UNCHANGED <<instance, alive, used, fresh>>

Next ==
    \E t \in Threads :
      \/ GetInstance(t) \/ Test(t) \/ AllocateThrows(t) \/ Assign(t) \/ Deref(t)
      \/ \E o \in Objects : Allocate(t, o)

Spec == Init /\ [][Next]_vars

-----------------------------------------------------------------------------
(* Every reference ever returned is to the same object, which is alive:    *)
(* "Thread safe in C++11".                                                 *)
OneLiveInstance ==
    /\ \A t \in Threads : ref[t] # Null => ref[t] \in alive
    /\ \A t, u \in Threads : ref[t] # Null /\ ref[u] # Null => ref[t] = ref[u]
===============================================================================
