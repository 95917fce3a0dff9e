---------------------------- MODULE MCIndexStore ----------------------------
(* Instances of IndexStore for TLC. *)
EXTENDS IndexStore, TLC

CONSTANTS anna, bob, c1, c2, c3, at, bt, xt

Owners == 1 :> anna @@ 2 :> anna @@ 3 :> bob

\* Values 2 and 3 are longer than the index and have a common beginning.
Index == <<1, 2, 2>>

Val(n, v, o) == [name |-> n, value |-> v, origin |-> o]
Rec(j, attrs) == [job |-> j, attrs |-> attrs]

\* Two calls meet at a job, and at an owner; xt is not configured.
Calls ==
  c1 :> <<Rec(1, <<Val(at, 1, "file"), Val(bt, 1, "system")>>), Rec(2, <<Val(at, 3, "file")>>)>>
  @@ c2 :> <<Rec(1, <<Val(xt, 1, "user"), Val(at, 2, "user")>>)>>
  @@ c3 :> <<Rec(3, <<Val(at, 1, "file")>>), Rec(2, <<Val(bt, 2, "system")>>)>>
Requests == [c \in Call |-> Calls[c]]

Rel(o, v, w) == [op |-> o, value |-> v, value2 |-> w]
Cond(n, o, records) == [attr |-> n, origin |-> o, records |-> records]
Ask(u, conditions) == [by |-> u, conditions |-> conditions, attributes |-> {at}]
IsJob(j) == Cond(JobId, "any", <<Rel("equal", j, j)>>)
Exists(n) == Cond(n, "any", <<Rel("exists", 1, 1)>>)
Has(n, o, v) == Cond(n, "any", <<Rel(o, v, v)>>)

Queries == {
  Ask(anna, <<IsJob(1)>>),
  Ask(anna, <<IsJob(1), Exists(bt)>>),
  Ask(anna, <<Exists(at), IsJob(1)>>),                         \* cannot be parsed
  Ask(anna, <<Exists(JobId), IsJob(1)>>),
  Ask(anna, <<Exists(JobId), Exists(at)>>),                    \* cannot be parsed
  Ask(bob, <<Exists(at)>>),
  Ask(anna, <<Cond(at, "user", <<Rel("equal", 3, 3)>>)>>),
  Ask(anna, <<Cond(at, "any", <<Rel("less", 2, 2), Rel("within", 2, 3)>>)>>),
  Ask(anna, <<Cond(at, "any", <<Rel("exists", 1, 1), Rel("greater", 1, 1)>>)>>),
  Ask(anna, <<Has(at, "equal", 1), Has(at, "equal", 2)>>),   \* two values of one attribute
  Ask(anna, <<Has(at, "unequal", 1), Has(bt, "unequal", 2)>>),
  Ask(anna, <<Exists(bt)>>)}                                   \* no indexed attribute

SlaveSymmetry == Permutations(Slave)
=============================================================================
