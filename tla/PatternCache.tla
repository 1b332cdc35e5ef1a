---------------------------- MODULE PatternCache ----------------------------
(* PcreCache (src/CacheAndPool.cpp) and its callers in FileReader and        *)
(* FileWriter: compiled patterns behind a shared mutex, handed out as raw    *)
(* pointers.  A lookup that misses compiles under the exclusive lock without *)
(* looking again; emplace then keeps the code that is there, if any.         *)
EXTENDS Naturals

CONSTANTS Threads, Patterns,
          Invalid,  \* the patterns that do not compile
          NoCode,
          MaxCodes  \* bound: compilations

VARIABLES
  cache,    \* code by pattern
  compiled, \* codes compiled so far: 1..compiled
  freed,    \* codes passed to pcre2_code_free
  caller,   \* what a thread calls: find, replace or replaceAll
  pattern,
  code,     \* the pointer it got
  pc

vars == <<cache, compiled, freed, caller, pattern, code, pc>>

Init ==
  /\ cache = [p \in Patterns |-> NoCode] /\ compiled = 0 /\ freed = {}
  /\ caller = [t \in Threads |-> "find"] /\ pattern \in [Threads -> Patterns]
  /\ code = [t \in Threads |-> NoCode]
  /\ pc = [t \in Threads |-> "idle"]

Goto(t, place) == pc' = [pc EXCEPT ![t] = place]

Begin(t, f, p) ==
  /\ pc[t] = "idle"
  /\ caller' = [caller EXCEPT ![t] = f]
  /\ pattern' = [pattern EXCEPT ![t] = p]
  /\ Goto(t, "lookup")
  /\ UNCHANGED <<cache, compiled, freed, code>>

Lookup(t) ==
  /\ pc[t] = "lookup"
  /\ IF cache[pattern[t]] = NoCode
       THEN Goto(t, "miss") /\ UNCHANGED code
       ELSE Goto(t, "match") /\ code' = [code EXCEPT ![t] = cache[pattern[t]]]
  /\ UNCHANGED <<cache, compiled, freed, caller, pattern>>

CompileThrows(t) ==
  /\ pc[t] = "miss"
  /\ pattern[t] \in Invalid
  /\ Goto(t, "idle")
  /\ UNCHANGED <<cache, compiled, freed, caller, pattern, code>>

Compile(t) ==
  /\ pc[t] = "miss"
  /\ pattern[t] \notin Invalid
  /\ compiled < MaxCodes
  /\ compiled' = compiled + 1
  /\ cache' = [cache EXCEPT ![pattern[t]] = IF @ = NoCode THEN compiled + 1 ELSE @]
  /\ code' = [code EXCEPT ![t] = cache'[pattern[t]]]
  /\ Goto(t, "match")
  /\ UNCHANGED <<freed, caller, pattern>>

\* The match or the substitution is done.  replace and replaceAll then free the
\* code, except when they return early (nothing found, an empty text or
\* template) or throw; find does not.
Finish(t) ==
  /\ pc[t] = "match"
  /\ freed' \in {freed} \cup IF caller[t] = "find" THEN {} ELSE {freed \cup {code[t]}}
  /\ code' = [code EXCEPT ![t] = NoCode]
  /\ Goto(t, "idle")
  /\ UNCHANGED <<cache, compiled, caller, pattern>>

Next == \E t \in Threads :
  \/ \E f \in {"find", "replace", "replaceAll"}, p \in Patterns : Begin(t, f, p)
  \/ Lookup(t) \/ CompileThrows(t) \/ Compile(t) \/ Finish(t)

Spec == Init /\ [][Next]_vars

\* "The compiled pcre2_code* is owned by the cache for its lifetime": what the
\* cache holds, and so what it hands out, is never freed by a caller.
OwnedForLifetime == \A p \in Patterns : cache[p] \notin freed
=============================================================================
