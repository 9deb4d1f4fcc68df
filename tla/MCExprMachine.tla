--------------------------- MODULE MCExprMachine ----------------------------
(***************************************************************************)
(* Variables of every type, two functions of each kind, and the statements *)
(* that TLC runs: each operator over each pair of leaves and over each     *)
(* pair of richer operands, which have effects, casts, calls and jumps of  *)
(* their own.  A function alone is no statement here (see FuncStmt).       *)
(***************************************************************************)
EXTENDS ExprMachine

Array1(type) == ArrayDataType(type)

MCGlobalType ==
  [i |-> IntDataType, l |-> LongDataType, d |-> DoubleDataType, c |-> CharDataType,
   b |-> BoolDataType, s |-> StringDataType, a |-> Array1(IntDataType),
   w |-> Array1(Array1(LongDataType))]

MCGlobalValue ==
  [i |-> Value(IntDataType, <<1>>), l |-> Value(LongDataType, <<2>>),
   d |-> Value(DoubleDataType, <<1, 2>>), c |-> Value(CharDataType, <<1>>),
   b |-> Bool(FALSE), s |-> Value(StringDataType, <<1>>), a |-> Array(Array1(IntDataType), 1),
   w |-> Array(Array1(Array1(LongDataType)), 2)]

MCInitialHeap ==
  << <<Value(IntDataType, <<1>>), Value(IntDataType, <<2>>)>>,
     <<Array(Array1(LongDataType), 3), Array(Array1(LongDataType), 4)>>,
     <<Value(LongDataType, <<1>>)>>, <<>> >>

(* minus and next have bodies. *)
MCFunc ==
  [minus |-> [native |-> FALSE, args |-> <<IntDataType, IntDataType>>, returns |-> IntDataType],
   next |-> [native |-> FALSE, args |-> <<LongDataType, IntDataType>>, returns |-> LongDataType],
   note |-> [native |-> TRUE, args |-> <<IntDataType>>, returns |-> IntDataType],
   say |-> [native |-> TRUE, args |-> <<StringDataType>>, returns |-> VoidDataType]]
MCFuncNames == <<"minus", "next">>

Id0(name) == IdNode(name)
Int0(n) == IntNode(<<n>>)

(* int minus(int a, int b) { int[] t = new int[]{a - b}; return t[0]; }     *)
(* long next(long n, int k) { double e; n = n + k; e = n; i; return n; }   *)
MCBody ==
  [minus |-> [args |-> <<[name |-> "a", type |-> IntDataType], [name |-> "b", type |-> IntDataType]>>,
              stmts |-> <<VarDefWithInitNode(ArrayDataTypeNode(IntDataTypeNode), "t",
                            ArrayAllocWithInitNode(IntDataTypeNode, <<UnboundedArraySizeNode>>,
                                                   <<SubNode(Id0("a"), Id0("b"))>>)),
                          ReturnValueNode(SubscriptNode(Id0("t"), Int0(0)))>>],
   next |-> [args |-> <<[name |-> "n", type |-> LongDataType], [name |-> "k", type |-> IntDataType]>>,
             stmts |-> <<VarDefWithoutInitNode(DoubleDataTypeNode, "e"),
                         ExprStmtNode(AssignNode(Id0("n"), SumNode(Id0("n"), Id0("k")))),
                         ExprStmtNode(AssignNode(Id0("e"), Id0("n"))),
                         ExprStmtNode(Id0("i")),
                         ReturnValueNode(Id0("n"))>>]]

-----------------------------------------------------------------------------
Leaf ==
  {Int0(0), Int0(2), Int0(IntMax), Int0(IntMax + 1), LongNode(<<1>>), LongNode(<<LongMax + 1>>),
   DoubleNode(<<1, 2>>), CharNode(<<CharMax>>), BoolNode(<<1>>), StringNode(<<2>>), Id0("x")}
    \cup {Id0(name) : name \in DOMAIN MCGlobalType \cup {"say"}}

Noted(n) == CallNode(Id0("note"), <<Int0(n)>>)
Item(n) == SubscriptNode(Id0("a"), n)

Rich ==
  {Noted(1), Item(Noted(1)), SubNode(Id0("i"), Id0("c")), NegativeNode(Id0("l")),
   CallNode(Id0("minus"), <<Noted(1), Noted(2)>>), CallNode(Id0("next"), <<Id0("i"), Id0("c")>>),
   SubscriptNode(SubscriptNode(Id0("w"), Int0(0)), Noted(0)), SubscriptNode(Id0("w"), Id0("c")),
   SumNode(Id0("i"), Id0("d")), SumNode(Id0("c"), Id0("s")), SumNode(Id0("c"), CharNode(<<1>>)),
   NotNode(EqualNode(Noted(1), Id0("l"))), AndNode(LessNode(Id0("i"), Id0("l")), EqualNode(Noted(2), Id0("c"))),
   OrNode(Id0("b"), LessNode(Noted(2), Id0("d"))), PreIncNode(Item(Id0("i"))),
   CallNode(Id0("say"), <<Id0("c")>>),
   ArrayAllocWithInitNode(IntDataTypeNode, <<UnboundedArraySizeNode>>, <<Noted(1), Id0("c")>>),
   ArrayAllocWithoutInitNode(LongDataTypeNode, <<BoundedArraySizeNode(Noted(2)), BoundedArraySizeNode(Noted(1))>>)}

(* One operator over operands of a set. *)
Over(operands0) ==
  {BinaryExprNode(op, x, y) : op \in BinaryExpr \cup {"Assign"}, x \in operands0, y \in operands0}
    \cup {UnaryExprNode(op, x) : op \in UnaryExpr, x \in operands0}
    \cup {SubscriptNode(x, y) : x \in operands0, y \in operands0}
    \cup {CallNode(Id0(f), <<x, y>>) : f \in {"minus", "next"}, x \in operands0, y \in operands0}
    \cup {CallNode(f, <<x>>) : f \in {Id0("note"), Id0("say"), Id0("minus"), Id0("b"), Id0("x")}, x \in operands0}
    \cup {ArrayAllocWithoutInitNode(t, <<BoundedArraySizeNode(x)>>) :
            t \in {IntDataTypeNode, StringDataTypeNode}, x \in operands0}
    \cup {ArrayAllocWithInitNode(t, <<UnboundedArraySizeNode>>, <<x, y>>) :
            t \in {IntDataTypeNode, DoubleDataTypeNode, StringDataTypeNode}, x \in operands0, y \in operands0}

Sized(n) == [k \in 1..n |-> BoundedArraySizeNode(Int0(2))]
Unsized(n) == [k \in 1..n |-> UnboundedArraySizeNode]
Allocs ==
  {ArrayAllocWithoutInitNode(t, Sized(n)) :
     t \in {IntDataTypeNode, VoidDataTypeNode, StringDataTypeNode}, n \in 1..MaxDims + 1}
    \cup {ArrayAllocWithInitNode(t, Unsized(n), v) :
            t \in {IntDataTypeNode, LongDataTypeNode}, n \in 1..MaxDims + 1,
            v \in {<<>>, <<Id0("a")>>, <<SubscriptNode(Id0("w"), Int0(1)), SubscriptNode(Id0("w"), Int0(0))>>}}

(* Places that are assigned to. *)
Place == {Id0(name) : name \in DOMAIN MCGlobalType}
           \cup {Item(x) : x \in {Int0(1), Int0(2), NegativeNode(Int0(1)), Noted(0), Id0("c"), PreIncNode(Id0("i"))}}
           \cup {SubscriptNode(Id0("w"), Id0("b")), SubscriptNode(Id0("w"), Noted(1)),
                 SubscriptNode(SubscriptNode(Id0("w"), Noted(0)), Noted(0)),
                 SubscriptNode(CallNode(Id0("note"), <<Id0("i")>>), Int0(0)),
                 SubscriptNode(ArrayAllocWithoutInitNode(IntDataTypeNode, Sized(1)), Int0(0))}

MCDataTypeNode ==
  {BoolDataTypeNode, IntDataTypeNode, LongDataTypeNode, DoubleDataTypeNode, CharDataTypeNode,
   StringDataTypeNode, VoidDataTypeNode}
Dim1(t) == ArrayDataTypeNode(t)

Expr == Leaf \cup Rich \cup Over(Leaf) \cup Over(Rich) \cup Allocs
          \cup {AssignNode(x, y) : x \in Place, y \in Leaf \cup Rich}
          \cup {UnaryExprNode(op, x) : op \in {"PreInc", "PreDec"}, x \in Place}

MCStmt ==
  {ExprStmtNode(e) : e \in Expr \ {Id0("say")}}
    \cup {VarDefWithInitNode(t, "v", e) :
            t \in MCDataTypeNode \cup {Dim1(IntDataTypeNode), Dim1(Dim1(LongDataTypeNode)),
                                       Dim1(Dim1(Dim1(IntDataTypeNode))), Dim1(VoidDataTypeNode)},
            e \in Leaf \cup Rich \cup Allocs}
    \cup {VarDefWithoutInitNode(t, "v") :
            t \in MCDataTypeNode \cup {Dim1(t) : t \in MCDataTypeNode}
                   \cup {Dim1(Dim1(t)) : t \in MCDataTypeNode} \cup {Dim1(Dim1(Dim1(IntDataTypeNode)))}}
    \cup {IfNode(e, ScopeNode(<<ExprStmtNode(x)>>)) :
            e \in Leaf \cup Rich, x \in {Noted(1), CallNode(Id0("say"), <<Id0("s")>>), Id0("x")}}

FuncStmt == {ExprStmtNode(Id0("say"))}
=============================================================================
