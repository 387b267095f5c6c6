----------------------------- MODULE SafeFragment -----------------------------
(***************************************************************************)
(* The two parsers that BrowserArtifactWriter (browser_artifacts.py) runs  *)
(* over the fragment of a failed page: _SingleTableRootValidator accepts   *)
(* one table, _SafeFragmentSanitizer writes it without its form elements.  *)
(* Both read one token after the other; here they read them side by side,  *)
(* and a second validator reads what the sanitizer writes.                 *)
(* HTMLParser itself is external: the tokens are its handler calls.        *)
(***************************************************************************)
EXTENDS Naturals, Sequences

CONSTANTS
  Tags,         \* the tags a fragment may contain, "table" among them
  RemovedTags,  \* _REMOVED_TAGS
  VoidTags,     \* _VOID_TAGS
  MaxDepth      \* bound: length of the stacks of the parsers

\* A table is neither a form element nor without an end tag.
ASSUME FragmentAssumption == "table" \notin RemovedTags \cup VoidTags

VARIABLES
  fragment,   \* the validator: its _stack, _root_seen, _is_valid
  sanitized,  \* a validator that reads the _parts of the sanitizer
  skipped,    \* _skipped_tag_stack
  diverged    \* history: the sanitizer wrote <tag> for a <tag/> that it kept, or
              \* began to skip an element that has no end tag

fragmentVars == <<fragment, sanitized, skipped, diverged>>

NewValidator == [stack |-> <<>>, root |-> FALSE, valid |-> TRUE]

FragmentInit ==
  fragment = NewValidator /\ sanitized = NewValidator /\ skipped = <<>> /\ diverged = FALSE

Last(s) == s[Len(s)]
Front(s) == SubSeq(s, 1, Len(s) - 1)
Ends(s, tag) == s # <<>> /\ Last(s) = tag

\* handle_starttag of the validator
Started(v, tag) ==
  IF v.stack = <<>> /\ (v.root \/ tag # "table") THEN [v EXCEPT !.valid = FALSE]
  ELSE [v EXCEPT !.root = TRUE,
                 !.stack = IF tag \in VoidTags THEN @ ELSE Append(@, tag)]

\* handle_endtag of the validator
Ended(v, tag) ==
  IF Ends(v.stack, tag) THEN [v EXCEPT !.stack = Front(@)]
  ELSE [v EXCEPT !.valid = FALSE]

\* handle_startendtag of the validator
StartEnded(v, tag) ==
  LET s == Started(v, tag) IN IF s.valid THEN Ended(s, tag) ELSE s

\* handle_data, handle_comment, handle_decl, unknown_decl, handle_pi: text and
\* markup other than tags may only stand inside the root.
Contained(v) == IF v.stack = <<>> THEN [v EXCEPT !.valid = FALSE] ELSE v

Accepted(v) == v.valid /\ v.root /\ v.stack = <<>>

Room == \A s \in {fragment.stack, sanitized.stack, skipped} : Len(s) < MaxDepth

(* Faulty variants of definitions below: mistakes the properties must find. *)

\* The end of any element ends the skipping.
CloseAny(tag) ==
  /\ fragment' = Ended(fragment, tag)
  /\ skipped' = <<>>
  /\ IF skipped = <<>> /\ tag \notin VoidTags
       THEN sanitized' = Ended(sanitized, tag) ELSE UNCHANGED sanitized
  /\ UNCHANGED diverged

\* An element inside a removed one of the same tag is not counted.
OpenUncounted(tag) ==
  /\ Room
  /\ fragment' = Started(fragment, tag)
  /\ IF skipped # <<>> \/ tag \in RemovedTags
       THEN skipped' = (IF skipped = <<>> THEN <<tag>> ELSE skipped) /\ UNCHANGED sanitized
       ELSE sanitized' = Started(sanitized, tag) /\ UNCHANGED skipped
  /\ UNCHANGED diverged

\* <tag/> of a removed element begins to skip like <tag>.
OpenCloseSkips(tag) ==
  /\ Room
  /\ fragment' = StartEnded(fragment, tag)
  /\ IF skipped = <<>> /\ tag \notin RemovedTags
       THEN sanitized' = Started(sanitized, tag) /\ diverged' = TRUE /\ UNCHANGED skipped
       ELSE /\ skipped' = IF skipped = <<>> THEN <<tag>> ELSE skipped
            /\ UNCHANGED <<sanitized, diverged>>

-----------------------------------------------------------------------------
\* <tag>
Open(tag) ==
  /\ Room
  /\ fragment' = Started(fragment, tag)
  /\ diverged' = (diverged \/ (skipped = <<>> /\ tag \in RemovedTags \cap VoidTags))
  /\ \/ /\ skipped # <<>>
        /\ skipped' = IF Ends(skipped, tag) THEN Append(skipped, tag) ELSE skipped
        /\ UNCHANGED sanitized
     \/ /\ skipped = <<>> /\ tag \in RemovedTags
        /\ skipped' = <<tag>>
        /\ UNCHANGED sanitized
     \/ /\ skipped = <<>> /\ tag \notin RemovedTags
        /\ sanitized' = Started(sanitized, tag)
        /\ UNCHANGED skipped

\* </tag>
Close(tag) ==
  /\ fragment' = Ended(fragment, tag)
  /\ skipped' = IF Ends(skipped, tag) THEN Front(skipped) ELSE skipped
  /\ IF skipped = <<>> /\ tag \notin VoidTags
       THEN sanitized' = Ended(sanitized, tag) ELSE UNCHANGED sanitized
  /\ UNCHANGED diverged

\* <tag/>, which the sanitizer writes back as <tag>
OpenClose(tag) ==
  /\ Room
  /\ fragment' = StartEnded(fragment, tag)
  /\ IF skipped = <<>> /\ tag \notin RemovedTags
       THEN sanitized' = Started(sanitized, tag) /\ diverged' = TRUE
       ELSE UNCHANGED <<sanitized, diverged>>
  /\ UNCHANGED skipped

\* Text is written, comments and declarations are not.
Other ==
  /\ fragment' = Contained(fragment)
  /\ \/ skipped = <<>> /\ sanitized' = Contained(sanitized)
     \/ UNCHANGED sanitized
  /\ UNCHANGED <<skipped, diverged>>

\* An invalid fragment stays invalid: is_valid reports it and nothing is written.
FragmentNext ==
  /\ fragment.valid
  /\ Other \/ \E tag \in Tags : Open(tag) \/ Close(tag) \/ OpenClose(tag)

FragmentSpec == FragmentInit /\ [][FragmentNext]_fragmentVars

-----------------------------------------------------------------------------
\* Whatever is inside a removed element stays out of the artifact: the sanitizer
\* skips as long as the fragment has such an element open, however they nest,
\* and whatever void or closed tags come between.
RemovedStaysOut ==
  fragment.valid /\ (\E i \in DOMAIN fragment.stack : fragment.stack[i] \in RemovedTags) =>
    skipped # <<>>

\* The elements open in the output are those open in the fragment down to the
\* first removed one: no element outside of it is lost or left open, until a tag
\* comes that the sanitizer takes for the wrong thing.
OutputFollowsFragment ==
  fragment.valid /\ ~diverged =>
    LET kept == {n \in 0..Len(fragment.stack) :
                   \A i \in 1..n : fragment.stack[i] \notin RemovedTags}
    IN  sanitized.stack =
          SubSeq(fragment.stack, 1, CHOOSE n \in kept : \A m \in kept : m <= n)

\* What is written of an accepted fragment is a single table exactly if neither
\* a kept element was written as <tag/> nor a removed one had no end tag: no
\* other fragment is spoilt, and none of those comes out right.
TableIsKept == Accepted(fragment) => (Accepted(sanitized) <=> ~diverged)

\* When an accepted fragment ends, so has every element that was skipped:
\* removing it takes nothing else of the table along (TODO.md, P4-01).
SkippingEnds == Accepted(fragment) => skipped = <<>>
=============================================================================
