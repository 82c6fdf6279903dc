--------------------------- MODULE MCAssignments ---------------------------
(* Statements with one, two and three operands on a side, and calls with up  *)
(* to four arguments.                                                        *)
EXTENDS Assignments

a == Variable(0)
b == Variable(1)
i == Variable(2)
t == Variable(3)
x == Variable(4)

Values == (0 :> <<"obj", "a">>) @@ (1 :> <<"obj", "b">>) @@ (2 :> <<"int", 0>>)
          @@ (3 :> Table)

Item(n) == Index(t, Number(n))
Key == Const(<<"str", "key">>, "pool")
Nil == Const(<<"nil">>, "nil")
True == Const(<<"true">>, "true")

Places == {a, b, i, Upvalue, Argument, Statvar(1), Item(0), Item(1), Item(300),
           Index(t, Key), Index(t, i), Index(Statvar(2), i)}

Constants == {Number(5), Number(300), Key, Nil, True}

Expressions ==
    {Op(a, "add", b), Op(Number(1), "band", Statvar(1)), Op(Item(1), "add", Number(5)),
     Op(Argument, "add", Op(Upvalue, "band", Item(0))), Op(Key, "add", Number(5)),
     Op(a, "band", b), Op(b, "band", Key), Unop("neg", Item(1)), Unop("neg", a),
     Cast(a, "string"), Cast(Argument, "real")}

Group(T, S, ops) == [targets |-> T, sources |-> S, ops |-> ops]
Ones(S) == {<<m>> : m \in S}
Twos(S) == {<<m, n>> : m, n \in S}
Threes(S) == {<<m, n, o>> : m, n, o \in S}
Fours(S) == {<<m, n, o, p>> : m, n, o, p \in S}

Few == {a, b, i, Statvar(1), Item(0), Index(t, i), Index(Statvar(2), Key)}
Pushables == {a, Number(5), Key, Argument, Nil}

AllStatements == {
    Group(Ones(Places \union {x}), Ones(Places \union Constants \union Expressions),
          {"assign", "add", "weak"}),
    Group(Twos({a, x, Upvalue, Argument, Item(0), Item(1)}),
          Twos({a, Upvalue, Argument, Item(0), Item(1), Key, Op(a, "add", b)}),
          {"assign", "add"}),
    Group(Twos(Few), Twos(Few), {"assign", "band"}),
    Group(Threes({a, b, Item(0)}), Threes({a, b, Item(0)}), {"assign"}),
    Group(Twos(Few), Ones(Few \union Expressions), {"assign", "weak", "add"}),
    Group(Ones(Few), Twos(Few), {"add"}),
    Group({<<>>}, Fours(Pushables), {"call"}),
    Group({<<>>}, Twos(Places \union Constants \union Expressions), {"call"})}

\* Lists of two variables.
TwoVariables ==
    {Group(Twos({a, b}), Twos({a, b, Op(a, "add", Number(1))}), {"assign"})}

=============================================================================
