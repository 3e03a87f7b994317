---------------------------- MODULE RatingEngine ----------------------------
(***************************************************************************)
(* The derivation of a rating (app/rating_engine.py) and the migrations    *)
(* that _load_file records from it, over the loads of one company.         *)
(*                                                                         *)
(* A profile is a grade, NULL for a blank cell, or Other for a text that   *)
(* is no grade.  A liquidity adjustment is the number before "notch", or   *)
(* Other for any text without one.                                         *)
(***************************************************************************)
EXTENDS Integers, Sequences, FiniteSetsExt

CONSTANTS NULL, Other,
          Profile,     \* the profiles of the instance
          Adjustment,  \* its liquidity adjustments
          MaxLoads     \* bound on the loads

RATING_SCALE == <<"AAA", "AA+", "AA", "AA-", "A+", "A", "A-", "BBB+", "BBB", "BBB-", "BB+", "BB",
                  "BB-", "B+", "B", "B-", "CCC+", "CCC", "CCC-", "CC", "C", "D", "SD">>

Last == Len(RATING_SCALE) - 1
Grade == {RATING_SCALE[i] : i \in DOMAIN RATING_SCALE}

\* <<business risk, financial risk, anchor>>
COMBINATION_MATRIX ==
  { <<"AAA", "AAA", "AAA">>, <<"AAA", "AA+", "AAA">>, <<"AAA", "AA", "AA+">>,
    <<"AA", "AA", "AA">>, <<"AA", "A", "AA-">>,
    <<"A", "A", "A">>, <<"A", "BBB", "A-">>,
    <<"BBB", "BBB", "BBB">>, <<"BBB", "BB+", "BBB-">>, <<"BBB", "BB", "BB+">>,
    <<"BBB-", "BB", "BB+">>,
    <<"BB", "BB", "BB">>, <<"BB", "B+", "BB-">>,
    <<"B+", "B", "B">>, <<"B+", "C", "CCC+">>,
    <<"B", "CC", "CCC">>, <<"B", "C", "CCC-">>,
    <<"CCC", "CCC", "CCC">>, <<"CCC", "CC", "CC">>,
    <<"CC", "C", "C">> }

\* What the constants have to be; the instance assumes it.
RatingAssumption ==
  /\ Profile \subseteq Grade \cup {NULL, Other} /\ Adjustment \subseteq Int \cup {Other}
  /\ {NULL, Other} \cap Grade = {} /\ MaxLoads \in Nat

VARIABLES
  loads,      \* number of loads
  input,      \* the profiles and the adjustment of the latest load
  final,      \* final_rating of the current snapshot
  migrations  \* the company's migrations: sequence of [from, to, notches, direction]

vars == <<loads, input, final, migrations>>

\* _scale_index: positions count from 0.
Index(r) == (CHOOSE i \in DOMAIN RATING_SCALE : RATING_SCALE[i] = r) - 1
Rated(i) == RATING_SCALE[i + 1]

Clamp(i) == Max({0, Min({Last, i})})

\* Mutant: rounded toward the better one.
Blend_Floor(i, j) == (i + j) \div 2

\* The average of two positions, rounded toward the worse one.
Blend(i, j) == (i + j + 1) \div 2

Exact(b, f) == {m \in COMBINATION_MATRIX : m[1] = b /\ m[2] = f}

\* derive_anchor
Anchor(b, f) ==
  IF NULL \in {b, f} THEN NULL
  ELSE IF Exact(b, f) # {} THEN (CHOOSE m \in Exact(b, f) : TRUE)[3]
  ELSE IF Other \in {b, f} THEN NULL
  ELSE Rated(Clamp(Blend(Index(b), Index(f))))

\* parse_notch_adjustment
Notches(a) == IF a = Other THEN 0 ELSE a

\* apply_notches: positive moves toward AAA.
ApplyNotches(r, n) == Rated(Clamp(Index(r) - n))

\* derive_final_rating
Final(b, f, a) == IF Anchor(b, f) = NULL THEN NULL ELSE ApplyNotches(Anchor(b, f), Notches(a))

\* notches_between, of two grades.
NotchesBetween(from, to) == Index(from) - Index(to)

\* migration_direction
Direction(from, to) == IF from = NULL THEN "new"
                       ELSE IF from = to THEN "affirmation"
                       ELSE IF NotchesBetween(from, to) > 0 THEN "upgrade" ELSE "downgrade"

Init == /\ loads = 0 /\ final = NULL /\ migrations = <<>>
        /\ input = [brp |-> NULL, frp |-> NULL, adjustment |-> Other]

\* Mutant: a rating after a gap is no migration.
Moves_Known(new) == new # NULL /\ new # final /\ (final # NULL \/ migrations = <<>>)

\* Only a rating that differs from the one before is a migration.
Moves(new) == new # NULL /\ new # final

Migration(new) ==
  [from |-> final, to |-> new, direction |-> Direction(final, new),
   notches |-> IF final = NULL THEN 0 ELSE NotchesBetween(final, new)]

\* The rating part of _load_file.
Load(b, f, a) ==
  LET new == Final(b, f, a)
  IN  /\ loads < MaxLoads
      /\ loads' = loads + 1
      /\ input' = [brp |-> b, frp |-> f, adjustment |-> a]
      /\ final' = new
      /\ migrations' = IF Moves(new) THEN Append(migrations, Migration(new)) ELSE migrations

Next == \E b \in Profile, f \in Profile, a \in Adjustment : Load(b, f, a)

Spec == Init /\ [][Next]_vars

-----------------------------------------------------------------------------
(* Properties *)

Rateable == input.brp \in Grade /\ input.frp \in Grade

\* The matrix and the blend fit together: one better profile never makes a
\* worse anchor.
AnchorIsMonotone ==
  Rateable =>
    \A g \in Grade :
      /\ Index(g) <= Index(input.brp) => Index(Anchor(g, input.frp)) <= Index(Anchor(input.brp, input.frp))
      /\ Index(g) <= Index(input.frp) => Index(Anchor(input.brp, g)) <= Index(Anchor(input.brp, input.frp))

\* An anchor is no better than the better profile and no worse than the worse.
AnchorLiesBetween ==
  Rateable =>
    Index(Anchor(input.brp, input.frp)) \in
      Min({Index(input.brp), Index(input.frp)})..Max({Index(input.brp), Index(input.frp)})

\* The hand-written matrix and the blend that fills its gaps make one scale.
AnchorsFit == AnchorIsMonotone /\ AnchorLiesBetween

\* The notches between two gaps in the ratings add up to the whole way.
FirstOf(n) == Max({i \in 1..n : migrations[i].direction = "new"})
WayTo(n) == LET way[i \in 0..n] == IF i < FirstOf(n) THEN 0 ELSE way[i - 1] + migrations[i].notches
            IN  way[n]
MigrationsTelescope ==
  \A n \in DOMAIN migrations : WayTo(n) = Index(migrations[FirstOf(n)].to) - Index(migrations[n].to)

\* The last migration ends at the latest rating.
MigrationsEndAtRating ==
  final # NULL => migrations # <<>> /\ migrations[Len(migrations)].to = final

\* "Positive = upgrade, negative = downgrade": direction and notches agree.
DirectionsAgree ==
  \A i \in DOMAIN migrations :
    LET m == migrations[i]
    IN  /\ m.direction = "upgrade" <=> m.notches > 0
        /\ m.direction = "downgrade" <=> m.notches < 0

\* The recorded migrations account for the whole way of the rating.
MigrationsAddUp == MigrationsTelescope /\ MigrationsEndAtRating /\ DirectionsAgree

\* A positive adjustment never makes the rating worse than the anchor, a
\* negative one never better, and the ends of the scale hold.
AdjustmentsPull ==
  final # NULL =>
    LET way == Index(Anchor(input.brp, input.frp)) - Index(final)
        n == Notches(input.adjustment)
    IN  /\ n >= 0 => way \in 0..n
        /\ n <= 0 => way \in n..0
        /\ way # n => final \in {Rated(0), Rated(Last)}
=============================================================================
