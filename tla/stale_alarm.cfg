CONSTANTS
  Products = 2
  Lags = {7, 8}
  Covers = {3, 6, 8, 11}
SPECIFICATION FiguresSpec
PROPERTY StaleRaisesNoAlarm
