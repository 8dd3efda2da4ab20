----------------------------- MODULE MCWholeRun -----------------------------
(* Three forgers: of effects and a grant, of a task and its context, of claims. *)
EXTENDS WholeRun

Plain == [type |-> "", task |-> None, attempt |-> 0, approval |-> None, effect |-> None,
          outputs |-> {}, evidence |-> {}, reserved |-> 0, actual |-> 0, released |-> 0]
Said(type) == [Plain EXCEPT !.type = type]
OfTask(type, n) == [Plain EXCEPT !.type = type, !.task = "t", !.attempt = n]
OfEffect(type, id, approval) ==
  [Plain EXCEPT !.type = type, !.task = "t", !.effect = id, !.approval = approval]

Started == [Said("run.started") EXCEPT !.outputs = {"a"}]

EffectForger ==
  [events |-> {Started, Said("run.completed")}
              \union {OfEffect("effect.proposed", e, None) : e \in {"e", "f"}}
              \union {OfEffect("approval.granted", e, "g") : e \in {"e", "f"}}
              \union {OfEffect("effect.committed", e, "g") : e \in {"e", "f"}}
              \union {OfEffect("effect.committed", "e", None)}
              \union {OfEffect(type, "e", None) : type \in {"effect.aborted", "effect.compensated"}},
   max |-> 6, times |-> {0},
   catalog |-> [a \in {"a"} |-> [created |-> 0, fresh |-> Forever, parents |-> {}]],
   claims |-> {{}}, obligations |-> {{}},
   approvals |-> {[effect |-> e, scope |-> [effect |-> e, class |-> c, task |-> "t", payload |-> "a"]]
                  : e \in {"e", "f"}, c \in {"idempotent_write", "irreversible_write"}},
   effects |-> {[class |-> c, task |-> "t", payload |-> "a", approval |-> g, state |-> s]
                : c \in {"idempotent_write", "irreversible_write"}, g \in {None, "g"},
                  s \in {"proposed", "committed", "aborted", "compensated"}}]

\* Some packages owe the task's completion two validations.
Obliged(r, v, s) == [task |-> "t", refs |-> r, validation |-> v, satisfied |-> s]

TaskForger ==
  [events |-> {Said("run.started"), Started, Said("run.completed"), Said("run.failed"),
               [Said("artifact.ingested") EXCEPT !.outputs = {"a"}],
               [OfTask("context.validated", 1) EXCEPT !.evidence = {"a"}]}
              \union {[OfTask("task.attempt_started", n) EXCEPT !.reserved = 2] : n \in {1, 2}}
              \union {[OfTask("task.attempt_failed", 1) EXCEPT !.actual = k, !.released = 2 - k] : k \in {1, 2}}
              \union {[OfTask("task.completed", n) EXCEPT !.actual = k, !.released = 1, !.outputs = {"b"}]
                      : n \in {1, 2}, k \in {0, 1}}
              \union {[OfTask("task.cancelled", 1) EXCEPT !.released = 2]},
   max |-> 6, times |-> {0, 1},
   catalog |-> [a \in {"a", "b"} |->
                  IF a = "a" THEN [created |-> 0, fresh |-> 0, parents |-> {}]
                  ELSE [created |-> 1, fresh |-> Forever, parents |-> {"a"}]],
   claims |-> {{}},
   obligations |-> {{}} \union {{Obliged(r, v, s)} : r \in {{}, {"a"}}, v \in 1..6, s \in BOOLEAN}
                   \union {{Obliged({"a"}, v, TRUE), Obliged({"a"}, w, s)} : v, w \in 1..6, s \in BOOLEAN},
   approvals |-> {}, effects |-> {}]

ClaimForger ==
  [TaskForger EXCEPT
     !.events = {Said("run.started"), Said("run.completed"),
                 [Said("artifact.ingested") EXCEPT !.outputs = {"a"}],
                 [Said("artifact.ingested") EXCEPT !.outputs = {"b"}]},
     !.obligations = {{}},
     !.claims = {{}} \union {{[status |-> s, refs |-> r, producer |-> p, created |-> t]}
                            : s \in {"supported", "unverified"}, r \in {{}, {"a"}, {"b"}},
                              p \in 1..6, t \in {0, 1}}]

ThreeForgers == {EffectForger, TaskForger, ClaimForger}
=============================================================================
