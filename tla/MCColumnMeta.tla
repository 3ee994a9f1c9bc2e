----------------------------- MODULE MCColumnMeta -----------------------------
(* References without components, with an offset, with an offset that has  *)
(* a frame of its own, and with a frame; lists of one and of two.          *)
EXTENDS ColumnMeta, MeasRefTree

Plain(t) == Ref(t, NoComps)
Offset(t, v) == Ref(t, 1 :> Measure("epoch", <<v>>, Plain(1)))
Frame(t) == Ref(t, (2 :> Measure("epoch", <<3>>, Plain(2))) @@ (4 :> Measure("direction", <<1, 2>>, Plain(1))))
Deep(t) == Ref(t, (1 :> Measure("epoch", <<2>>, Frame(1))) @@ (3 :> Measure("position", <<4, 5, 6>>, Plain(3))))

MCRefLists == {<<Plain(4)>>, <<Offset(4, 8)>>, <<Plain(4), Plain(6)>>, <<Offset(4, 7)>>, <<Frame(5), Offset(6, 7)>>,
               <<Deep(4)>>, <<Deep(4), Deep(5)>>, <<Plain(4), Deep(5)>>}
MCDescs == {<<>>, <<<<"units", "string">>, <<"n", "int">>>>}
===============================================================================
