----------------------------- MODULE MCCnnHost -----------------------------
(***************************************************************************)
(* CnnHost with bytes of three bits, images of two and three pixels, one   *)
(* error word and two template words.                                      *)
(***************************************************************************)
EXTENDS CnnHost_proofs

Session(w, h, ts, it, no, alg, x_0, u, ideal) ==
  [width |-> w, height |-> h, Ts |-> ts, iter |-> it, template_no |-> no,
   learn_loop |-> 10, learn_rate |-> 2, alg |-> alg,
   images |-> [x_0 |-> x_0, u |-> u, y_ideal |-> ideal]]

MCSessions ==
  {Session(2, 1, 3, 0, 1, 4, <<-13, 6>>, <<30, -1>>, <<8, -32>>),
   Session(1, 3, 9, 12, 0, 1, <<0, 0, 0>>, <<-2, 17, 5>>, <<31, 0, -8>>)}
MCTimeSteps ==
  {Session(2, 1, ts, 9, 1, 1, <<-13, 6>>, <<30, -1>>, <<8, -32>>) : ts \in {3, 5}}
MCResultRows == {<<-13, 6, 30>>, <<0, -1, 21>>}
MCErrorRows == {<<-777>>, <<1234>>}
MCTemplateRows == {<<-9, 20>>}
MCTemplateNos == 0..1
MCInitTemplates == [n \in MCTemplateNos |-> <<5, -32>>]
MCInitHeader ==
  [width |-> 3, height |-> 1, Ts |-> 1, iter_cnt |-> 3, template_no |-> 0,
   learn_loop |-> 10, learn_rate |-> 10]
=============================================================================
