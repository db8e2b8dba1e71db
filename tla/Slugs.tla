-------------------------------- MODULE Slugs --------------------------------
(***************************************************************************)
(* The slugs of organizations: a root, followed by the numbers appended to *)
(* it, <<"acme">> and <<"acme", "2">>.  A name gives one of these as well,  *)
(* "Acme 2" the second, or NoBase when nothing of it is left by slugify.    *)
(***************************************************************************)
EXTENDS Naturals, SequencesExt, FiniteSetsExt

CONSTANTS
  Parts,     \* the roots and numbers slugs are put together from
  Cut(_, _), \* a root, shortened so that a number fits behind it
  Numbers    \* the numbers in the order they are tried, "2" to "999"

ASSUME SlugsAssumption == Numbers \in Seq(Parts)

NoBase == <<>>
NoSlug == <<"">>
Root(base) == IF base = NoBase THEN <<"org">> ELSE base

\* `root[: max_length - len(tail)]` and the tail.
Candidate(base, i) == Append(Cut(Root(base), Numbers[i]), Numbers[i])

\* Bug: only the name's own slug is looked up (get_by_slug).
TakenExactly(slugs, base) == slugs \cap {Root(base)}

\* taken_slugs: LIKE 'base%', which finds no candidate whose root was cut.
TakenSlugs(slugs, base) == {s \in slugs : IsPrefix(Root(base), s)}

\* unique_slug: the base, or the first candidate that is free, if there is one.
UniqueSlug(base, taken) ==
  LET free == {i \in DOMAIN Numbers : Candidate(base, i) \notin taken} IN
  IF base # NoBase /\ base \notin taken THEN base
  ELSE IF free # {} THEN Candidate(base, Min(free))
  ELSE NoSlug
=============================================================================
