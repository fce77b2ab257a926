------------------------------ MODULE MCAtomic ------------------------------
(***************************************************************************)
(* Three resources: home, which is the self url, and two below it.         *)
(***************************************************************************)
EXTENDS Atomic

CONSTANTS home, doc, note, sig, ann, ben, d, none

MCPage      == {home, doc, note}
MCSignature == {sig}
MCAgent     == {ann, ben}
MCData      == {d}
Res(w, p) == [write |-> w, parent |-> p, data |-> none]

\* Rights inherited through doc; a cycle of doc and note.
MCInitStores ==
  {[u \in Url |-> CASE u = home -> Res({ann}, none)
                    [] u = doc  -> Res({}, home)
                    [] OTHER    -> none],
   [u \in Url |-> CASE u = home -> Res({ben}, none)
                    [] u = doc  -> Res({}, note)
                    [] u = note -> Res({}, doc)
                    [] OTHER    -> none]}

Ask(s, who) ==
  [subject |-> s, created_at |-> 0, signer |-> who, set |-> [Res(none, none) EXCEPT !.data = d],
   remove |-> {}, destroy |-> FALSE, signature |-> none]

\* Edits of doc, signed and not, by both, two with one signature; a new note
\* below doc, and one without a parent; a destruction; doc goes to note, and
\* loses its rights; a commit from the future, and one by which the signer gets
\* rights.  Then commits about urls of commits: one destroys what was stored
\* with the signature, one is about the url it gets itself, and one puts doc
\* below a commit's url, which its own record will be at.
MCCommits ==
  {Ask(doc, ann), [Ask(doc, ben) EXCEPT !.signature = sig],
   [Ask(note, ann) EXCEPT !.set.parent = doc, !.set.write = {}], Ask(note, ann),
   [Ask(doc, ben) EXCEPT !.destroy = TRUE],
   [Ask(doc, ann) EXCEPT !.set.parent = note, !.signature = sig],
   [Ask(doc, ann) EXCEPT !.remove = {"write", "data"}],
   [Ask(doc, ann) EXCEPT !.created_at = 7], [Ask(doc, ben) EXCEPT !.set.write = {ben}],
   [Ask(<<"commits", sig>>, ben) EXCEPT !.destroy = TRUE],
   [Ask(<<"commits", sig>>, ann) EXCEPT !.set.write = {ann}, !.signature = sig],
   [Ask(doc, ann) EXCEPT !.set.parent = <<"commitsUnsigned", 1>>, !.set.write = {}]}
MCOptions == {{}, {"rights"}, {"timestamp"}, {"signature", "timestamp", "rights"}}
=============================================================================
