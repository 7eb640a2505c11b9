SPECIFICATION LibrarySpec
CONSTANTS
  GroupBits = 2
  IntBits = 5
  Widths = {3, 5, 9}
  ByteRange = 4
  echo_request = 2
  PortRange = 16
  V4Texts <- MCV4Texts
  V6Texts <- MCV6Texts
  CanonicalV6 <- MCCanonicalV6
  NoAddress <- MCNoAddress
  RowSize = 2
  Content <- MCContent
  Filenames = {f, g}
  Written = {a}
  NulByte = NulByte
  Descriptors = {3, 4}
  MaxSize = 3
  MaxTransfer = 2
  BufferSize = 2
  Priorities = {1, 2}
  Strings <- MCStrings
  MaxLength = 6
  Alphabet <- MCAlphabet
  MaxInput <- MCMaxInput
INVARIANTS VarintRight UtfRight ChecksumRight EndpointsRight EmbedRight FilesAgree CopyRight
