---------------------------- MODULE MCPhoneInput ----------------------------
(* An instance of PhoneInput for TLC. *)
EXTENDS PhoneInput

Doing(t, k, b, h, x, c, w, on) ==
  [does |-> [touch |-> t, keys |-> k, bar |-> b, hard |-> h, text |-> x, copy |-> c, window |-> w],
   on |-> on]
Contacts(t, w, on) == Doing(t, 0, 0, 0, 0, 0, w, on)
Keys(k, b, x, w) == Doing(0, k, b, 0, x, 0, w, "kwin")
Hards(t, h, w, on) == Doing(t, 0, 0, h, 0, 0, w, on)
Clips(c, w, on) == Doing(0, 0, 0, 0, 0, c, w, on)
MCDoings ==
  {Contacts(3, 1, "kwin"), Contacts(3, 0, "gnome"), Contacts(2, 1, "gnome"),
   Keys(3, 0, 0, 1), Keys(0, 3, 0, 0), Keys(0, 2, 0, 1), Keys(0, 1, 0, 2),
   Keys(0, 0, 5, 0), Keys(1, 2, 0, 0), Keys(0, 1, 2, 0),
   Hards(0, 2, 2, "kwin"), Hards(0, 3, 1, "kwin"), Hards(0, 2, 1, "gnome"), Hards(1, 1, 0, "kwin"),
   Clips(4, 0, "kwin"), Clips(4, 0, "gnome"), Clips(3, 1, "kwin"), Clips(3, 1, "gnome")}

Symmetry == Permutations(Copies)

MCWords == {<<"a">>, <<"b">>, <<"a", "b">>}
=============================================================================
